---- MODULE Spec2Model ----
(***************************************************************************)
(* A model of the streaming core of icecast-kh, src/src/source.c: the      *)
(* mount registry, the reference-counted broadcast queue of each source,   *)
(* the broadcaster (source client) handlers and the listener handlers.     *)
(*                                                                         *)
(* Every handler that runs under the source mutex is one atomic action.    *)
(* listener_waiting_on_source gives the mutex up around move_listener, so  *)
(* it is two actions.  Time is abstract: a timer is "running" or "expired" *)
(* and an environment action lets it expire.                               *)
(***************************************************************************)
EXTENDS Integers, Sequences, FiniteSets, TLC

\* ------------------------------------------------------------------ bounds
MaxBlocks == 3          \* queue refbufs alive at one time
NumListeners == 2       \* listener clients
NumBroadcasters == 3    \* source clients
MaxWrap == 2            \* steps of termination_count below zero

\* ------------------------------------------------------- program constants
NULL == 0
MAX_FALLBACK_DEPTH == 10
QueueSlack == 40000     \* queue_size_limit >= min_queue_size + 40000
SendLoop == 12          \* send_listener: max number of iterations in one go

Half == QueueSlack \div 2
\* length of the response headers of a listener
HeaderLen == Half
Mounts == {"a", "b"}
NoMount == ""
Listeners == 1 .. NumListeners
Broadcasters == 1 .. NumBroadcasters
Blocks == 1 .. MaxBlocks
\* each listener's own refbuf (response headers, or the private copy made on detach)
PrivOf(l) == MaxBlocks + l
AllBufs == 1 .. (MaxBlocks + NumListeners)
\* connection.sent_bytes is kept exactly up to SentCap; every value the code
\* compares it with (burst sizes, min_queue_offset) lies below
SentCap == 2 * QueueSlack + Half

VARIABLES
    src,      \* [Mounts -> source_t]: the registry and each source's fields
    buf,      \* [AllBufs -> refbuf_t]
    lis,      \* [Listeners -> client_t] of the listeners
    bc,       \* [Broadcasters -> client_t] of the source clients
    glob,     \* global.sources, the slow_listeners statistic, process faults
    config    \* ice_config_t: per-mount settings and the queue settings

vars == <<src, buf, lis, bc, glob, config>>

\* ---------------------------------------------------------------- refbufs
FreeBuf == [len |-> 0, sync |-> FALSE, qb |-> FALSE, rel |-> FALSE,
            next |-> NULL, count |-> 0]

refbuf_new(B, r, len, sync) ==
    [B EXCEPT ![r] = [len |-> len, sync |-> sync, qb |-> FALSE, rel |-> FALSE,
                      next |-> NULL, count |-> 1]]

refbuf_addref(B, r) == [B EXCEPT ![r].count = @ + 1]

\* destroyed when the count reaches zero
refbuf_release(B, r) ==
    IF r = NULL \/ B[r].count = 0 THEN B
    ELSE IF B[r].count = 1 THEN [B EXCEPT ![r] = FreeBuf]
    ELSE [B EXCEPT ![r].count = @ - 1]

\* client_set_queue (client, refbuf): drop the reference held on the current
\* refbuf (and with it any private content), take one on the new refbuf, pos = 0
client_set_queue(c, B, r) ==
    LET B1 == refbuf_release(B, c.refbuf)
        B2 == IF r = NULL THEN B1 ELSE refbuf_addref(B1, r)
    IN  [c |-> [c EXCEPT !.refbuf = r, !.pos = 0, !.intro = FALSE], b |-> B2]

FreeSlots(B) == {r \in Blocks : B[r].count = 0}
\* format->get_buffer allocates: the lowest slot of F stands for the new refbuf
NewSlot(F) == CHOOSE r \in F : \A q \in F : r <= q

\* blocks met from r by following next. n bounds the walk.
RECURSIVE Chain(_, _, _)
Chain(B, r, n) ==
    IF r = NULL \/ n = 0 THEN <<>>
    ELSE <<r>> \o Chain(B, B[r].next, n - 1)

ChainOf(B, r) == Chain(B, r, MaxBlocks + NumListeners)
Range(s) == {s[i] : i \in DOMAIN s}
RECURSIVE SumLen(_, _)
SumLen(B, s) == IF s = <<>> THEN 0 ELSE B[Head(s)].len + SumLen(B, Tail(s))

\* ------------------------------------------------------------ source flags
RUNNING == "RUNNING"
TERMINATING == "TERMINATING"
LISTENERS_SYNC == "LISTENERS_SYNC"
PAUSE_LISTENERS == "PAUSE_LISTENERS"
ON_DEMAND == "ON_DEMAND"
TIMEOUT == "TIMEOUT"

source_running(s) == RUNNING \in s.flags
source_available(s) == RUNNING \in s.flags /\ LISTENERS_SYNC \notin s.flags

NoSource ==
    [inTree |-> FALSE, flags |-> {}, listeners |-> 0, clients |-> {},
     termination_count |-> 0, fallback |-> NoMount, client |-> NULL,
     ftype |-> "", wait_time |-> FALSE,
     stream_data |-> NULL, stream_data_tail |-> NULL, min_queue_point |-> NULL,
     min_queue_offset |-> 0, queue_size |-> 0,
     min_queue_size |-> 0, queue_size_limit |-> 0, default_burst_size |-> 0]

\* ------------------------------------------------------------------ config
\* the queue settings of ice_config_t (queue-size, min-queue-size, burst-size)
QueueConfigs ==
    { [queue_size_limit |-> QueueSlack, min_queue_size |-> 0, burst_size |-> 0],
      [queue_size_limit |-> QueueSlack, min_queue_size |-> 2 * QueueSlack,
       burst_size |-> QueueSlack] }

\* a mount_proxy; present = FALSE stands for config_find_mount returning NULL
\* auth = FALSE stands for no auth section (mountinfo->auth == NULL)
NoMountInfo ==
    [present |-> FALSE, fallback_mount |-> NoMount, fallback_override |-> FALSE,
     fallback_when_full |-> FALSE, max_listeners |-> -1, wait_time |-> FALSE,
     auth |-> FALSE, allow_duplicate_users |-> TRUE, drop_existing_listener |-> FALSE]

config_find_mount(m) == IF m \in Mounts THEN config.mount[m] ELSE NoMountInfo

\* source_update_settings with source_apply_mount: the global queue settings,
\* then min_queue_size >= burst size and queue_size_limit >= min_queue_size + 40000
source_update_settings(s, q, mountinfo) ==
    LET burst == q.burst_size
        minq  == IF q.min_queue_size < burst THEN burst ELSE q.min_queue_size
        limit == IF minq + QueueSlack > q.queue_size_limit
                 THEN minq + QueueSlack ELSE q.queue_size_limit
    IN  [s EXCEPT !.queue_size_limit = limit,
                  !.min_queue_size = minq,
                  !.default_burst_size = burst,
                  !.wait_time = mountinfo.present /\ mountinfo.wait_time]

\* ------------------------------------------------------- the queue (source_read)
\* move the starting point for new listeners; abort is the abort() of the
\* "weird state of min_queue point" branch
RECURSIVE MoveMinQueuePoint(_, _, _)
MoveMinQueuePoint(s, B, r) ==
    IF s.min_queue_offset > s.min_queue_size
    THEN LET to_release == s.min_queue_point IN
         IF to_release # NULL /\ B[to_release].next # NULL
         THEN MoveMinQueuePoint(
                  [s EXCEPT !.min_queue_offset = @ - B[to_release].len,
                            !.min_queue_point = B[to_release].next],
                  refbuf_release(B, to_release), r)
         ELSE [s |-> s, b |-> B, abort |-> (s.min_queue_point # r)]
    ELSE [s |-> s, b |-> B, abort |-> FALSE]

\* an append that leaves the starting point for new listeners where it is
QueueAppendNoAdvance(s, B, r, len, sync) ==
    LET B1 == refbuf_addref([refbuf_new(B, r, len, sync) EXCEPT ![r].qb = TRUE], r)
        s1 == IF s.stream_data = NULL
              THEN [s EXCEPT !.stream_data = r, !.min_queue_point = r,
                             !.min_queue_offset = 0]
              ELSE s
        tail == s1.stream_data_tail
        B2 == IF tail # NULL
              THEN refbuf_release([B1 EXCEPT ![tail].next = r], tail)
              ELSE B1
    IN  [s |-> [s1 EXCEPT !.stream_data_tail = r, !.queue_size = @ + len,
                          !.min_queue_offset = @ + len],
         b |-> refbuf_addref(B2, r), abort |-> FALSE]

\* an append that takes no reference on the refbuf beyond the one it is
\* created with
QueueAppendNoAddref(s, B, r, len, sync) ==
    LET B1 == [refbuf_new(B, r, len, sync) EXCEPT ![r].qb = TRUE]
        s1 == IF s.stream_data = NULL
              THEN [s EXCEPT !.stream_data = r, !.min_queue_point = r,
                             !.min_queue_offset = 0]
              ELSE s
        tail == s1.stream_data_tail
        oddity == tail # NULL /\ s1.min_queue_offset > s1.min_queue_size
        B2 == IF tail # NULL
              THEN refbuf_release([B1 EXCEPT ![tail].next = r], tail)
              ELSE B1
        s2 == [s1 EXCEPT !.flags = IF oddity THEN @ \ {RUNNING} ELSE @,
                         !.stream_data_tail = r,
                         !.queue_size = @ + len,
                         !.min_queue_offset = @ + len]
    IN  MoveMinQueuePoint(s2, B2, r)

\* one refbuf from format->get_buffer appended to the in-flight data queue
QueueAppend(s, B, r, len, sync) ==
    LET \* created with one reference; QUEUE_BLOCK; the latest is counted twice
        B1 == refbuf_addref([refbuf_new(B, r, len, sync) EXCEPT ![r].qb = TRUE], r)
        s1 == IF s.stream_data = NULL
              THEN [s EXCEPT !.stream_data = r, !.min_queue_point = r,
                             !.min_queue_offset = 0]
              ELSE s
        tail == s1.stream_data_tail
        oddity == tail # NULL /\ s1.min_queue_offset > s1.min_queue_size
        B2 == IF tail # NULL
              THEN refbuf_release([B1 EXCEPT ![tail].next = r], tail)
              ELSE B1
        s2 == [s1 EXCEPT !.flags = IF oddity THEN @ \ {RUNNING} ELSE @,
                         !.stream_data_tail = r,
                         !.queue_size = @ + len,
                         !.min_queue_offset = @ + len]
        \* increase refcount for keeping burst data
        B3 == refbuf_addref(B2, r)
    IN  MoveMinQueuePoint(s2, B3, r)

\* "lets see if we have too much data in the queue"
TrimCond(s, B) ==
    \/ s.queue_size > s.queue_size_limit
    \/ (s.stream_data # NULL /\ B[s.stream_data].count = 1)

\* a trim that forgets to take the length of the block off queue_size
RECURSIVE QueueTrimKeepsSize(_, _)
QueueTrimKeepsSize(s, B) ==
    IF TrimCond(s, B) /\ s.stream_data # NULL
    THEN LET to_go == s.stream_data IN
         QueueTrimKeepsSize([s EXCEPT !.stream_data = B[to_go].next],
                            refbuf_release([B EXCEPT ![to_go].next = NULL,
                                                     ![to_go].rel = TRUE], to_go))
    ELSE [s |-> s, b |-> B]

\* a trim that does not flag the block it unlinks
RECURSIVE QueueTrimNoMark(_, _)
QueueTrimNoMark(s, B) ==
    IF TrimCond(s, B) /\ s.stream_data # NULL
    THEN LET to_go == s.stream_data IN
         QueueTrimNoMark([s EXCEPT !.stream_data = B[to_go].next,
                                   !.queue_size = @ - B[to_go].len],
                         refbuf_release([B EXCEPT ![to_go].next = NULL], to_go))
    ELSE [s |-> s, b |-> B]

\* a trim that also takes the head when queue_size has just reached the limit
RECURSIVE QueueTrimAtLimit(_, _)
QueueTrimAtLimit(s, B) ==
    IF (TrimCond(s, B) \/ s.queue_size >= s.queue_size_limit) /\ s.stream_data # NULL
    THEN LET to_go == s.stream_data IN
         QueueTrimAtLimit([s EXCEPT !.stream_data = B[to_go].next,
                                    !.queue_size = @ - B[to_go].len],
                          refbuf_release([B EXCEPT ![to_go].next = NULL,
                                                   ![to_go].rel = TRUE], to_go))
    ELSE [s |-> s, b |-> B]

RECURSIVE QueueTrim(_, _)
QueueTrim(s, B) ==
    IF TrimCond(s, B) /\ s.stream_data # NULL
    THEN LET to_go == s.stream_data IN
         QueueTrim([s EXCEPT !.stream_data = B[to_go].next,
                             !.queue_size = @ - B[to_go].len],
                   refbuf_release([B EXCEPT ![to_go].next = NULL,
                                            ![to_go].rel = TRUE], to_go))
    ELSE [s |-> s, b |-> B]

\* a flush that drops two references on every block from the head on
RECURSIVE ClearQueueTwice(_, _, _, _)
ClearQueueTwice(B, p, mqp, do_twice) ==
    IF p = NULL THEN B
    ELSE LET nxt == B[p].next
             B1 == [B EXCEPT ![p].next = NULL]
         IN  ClearQueueTwice(refbuf_release(refbuf_release(B1, p), p), nxt, mqp, TRUE)

\* source_clear_source: flush out the stream data
RECURSIVE ClearQueue(_, _, _, _)
ClearQueue(B, p, mqp, do_twice) ==
    IF p = NULL THEN B
    ELSE LET twice == do_twice \/ p = mqp
             nxt == B[p].next
             B1 == [B EXCEPT ![p].next = NULL]
             B2 == IF twice THEN refbuf_release(B1, p) ELSE B1
         IN  ClearQueue(refbuf_release(B2, p), nxt, mqp, twice)

source_clear_source(s, B) ==
    LET B1 == refbuf_release(B, s.stream_data_tail)
        B2 == ClearQueue(B1, s.stream_data, s.min_queue_point, FALSE)
    IN  [s |-> [s EXCEPT !.min_queue_point = NULL, !.stream_data = NULL,
                         !.stream_data_tail = NULL, !.min_queue_size = 0,
                         !.min_queue_offset = 0, !.default_burst_size = 0,
                         !.queue_size = 0, !.queue_size_limit = 0],
         b |-> B2]

\* -------------------------------------------------------------- listeners
NoUser == ""
NoListener ==
    [ops |-> "none", shared_data |-> NoMount, check_buffer |-> "",
     refbuf |-> NULL, pos |-> 0, sent_bytes |-> 0, respcode |-> FALSE,
     intro |-> FALSE, error |-> FALSE, username |-> NoUser]

Min(a, b) == IF a < b THEN a ELSE b

\* a socket write of the rest of the refbuf: all of it, or a first part
WriteAmounts(rem) == {rem} \cup {n \in {Half} : n < rem}

\* format->write_buf_to_client / format_generic_write_to_client: sends
\* refbuf[pos..len], advances pos and sent_bytes; -1 when the socket takes nothing
write_buf_to_client(c, B) ==
    LET rem == B[c.refbuf].len - c.pos IN
    { [c |-> [c EXCEPT !.pos = @ + n,
                       !.sent_bytes = Min(@ + n, SentCap)],
       b |-> B, ret |-> n] : n \in {k \in WriteAmounts(rem) : k > 0} }
    \cup { [c |-> c, b |-> B, ret |-> -1] }

\* size > v with size a size_t and v an off_t (LP64): v is converted to
\* unsigned, so a negative v is huge; a negative size stands for a wrapped one
USizeGt(size, v) == IF (size < 0) = (v < 0) THEN size > v ELSE size < 0

RECURSIVE BurstWalk(_, _, _, _)
BurstWalk(B, refbuf, size, v) ==
    IF USizeGt(size, v) /\ refbuf # NULL /\ B[refbuf].next # NULL
    THEN BurstWalk(B, B[refbuf].next, size - B[refbuf].len, v)
    ELSE refbuf

\* a search that takes the block it starts at, sync point or not
FirstAny(B, refbuf, n) == refbuf

RECURSIVE FirstSync(_, _, _)
FirstSync(B, refbuf, n) ==
    IF refbuf = NULL \/ n = 0 THEN NULL
    ELSE IF B[refbuf].sync THEN refbuf
    ELSE FirstSync(B, B[refbuf].next, n - 1)

\* the block the search for a sync point starts at: the tail for a listener
\* that was sent more than the burst already, else a block at or after the
\* burst point
StartFrom(s, c, B) ==
    LET tail == s.stream_data_tail IN
    IF c.sent_bytes > s.min_queue_offset /\ B[tail].sync
    THEN tail
    ELSE BurstWalk(B, s.min_queue_point, s.min_queue_size,
                   s.default_burst_size - c.sent_bytes)

\* the refbuf locate_start_on_queue puts the listener on, NULL when there is none
StartRefbuf(s, c, B) ==
    IF c.error \/ s.stream_data_tail = NULL THEN NULL
    ELSE FirstSync(B, StartFrom(s, c, B), MaxBlocks + NumListeners)

\* lag as locate_start_on_queue computes it: the walk from the burst point
\* and the search for a sync point take the length of every block they pass
RECURSIVE BurstWalkLag(_, _, _, _, _)
BurstWalkLag(B, refbuf, size, v, lag) ==
    IF USizeGt(size, v) /\ refbuf # NULL /\ B[refbuf].next # NULL
    THEN BurstWalkLag(B, B[refbuf].next, size - B[refbuf].len, v, lag - B[refbuf].len)
    ELSE lag

RECURSIVE SyncLag(_, _, _, _)
SyncLag(B, refbuf, lag, n) ==
    IF refbuf = NULL \/ n = 0 \/ B[refbuf].sync THEN lag
    ELSE SyncLag(B, B[refbuf].next, lag - B[refbuf].len, n - 1)

\* the lag in client->queue_pos = source->client->queue_pos - lag, for a
\* listener that locate_start_on_queue puts on the queue
StartLag(s, c, B) ==
    LET tail == s.stream_data_tail IN
    IF c.sent_bytes > s.min_queue_offset /\ B[tail].sync
    THEN SyncLag(B, tail, B[tail].len, MaxBlocks + NumListeners)
    ELSE LET v == s.default_burst_size - c.sent_bytes IN
         SyncLag(B, BurstWalk(B, s.min_queue_point, s.min_queue_size, v),
                 BurstWalkLag(B, s.min_queue_point, s.min_queue_size, v,
                              s.min_queue_offset),
                 MaxBlocks + NumListeners)

locate_start_on_queue(s, c, B) ==
    LET r == StartRefbuf(s, c, B) IN
    IF r = NULL THEN [c |-> c, b |-> B, ret |-> -1]
    ELSE LET q == client_set_queue(c, B, r) IN [c |-> q.c, b |-> q.b, ret |-> 0]

\* a source_queue_advance that moves on before the refbuf is finished
source_queue_advance_early(s, c, B) ==
    LET loc == IF c.refbuf = NULL THEN locate_start_on_queue(s, c, B)
               ELSE [c |-> c, b |-> B, ret |-> 0]
        refbuf == loc.c.refbuf
    IN  IF loc.ret < 0 THEN {loc}
        ELSE IF loc.c.pos > 0
        THEN IF loc.b[refbuf].next = NULL
             THEN {[c |-> loc.c, b |-> loc.b, ret |-> -1]}
             ELSE LET q == client_set_queue(loc.c, loc.b, loc.b[refbuf].next)
                  IN  write_buf_to_client(q.c, q.b)
        ELSE write_buf_to_client(loc.c, loc.b)

source_queue_advance(s, c, B) ==
    LET loc == IF c.refbuf = NULL THEN locate_start_on_queue(s, c, B)
               ELSE [c |-> c, b |-> B, ret |-> 0]
        refbuf == loc.c.refbuf
    IN  IF loc.ret < 0 THEN {loc}
        ELSE IF loc.c.pos >= loc.b[refbuf].len
        THEN IF loc.b[refbuf].next = NULL
             THEN {[c |-> loc.c, b |-> loc.b, ret |-> -1]}
             ELSE LET q == client_set_queue(loc.c, loc.b, loc.b[refbuf].next)
                  IN  write_buf_to_client(q.c, q.b)
        ELSE write_buf_to_client(loc.c, loc.b)

\* no intro file is configured: format_file_read returns -1 at once
http_source_introfile(s, c, B) ==
    IF s.stream_data_tail # NULL
    THEN LET q == client_set_queue(c, B, NULL) IN
         source_queue_advance(s, [q.c EXCEPT !.check_buffer = "source_queue_advance"], q.b)
    ELSE {[c |-> c, b |-> B, ret |-> -1]}

http_source_intro(s, c, B) ==
    IF c.sent_bytes > 0
    THEN LET q == client_set_queue(c, B, NULL) IN
         source_queue_advance(s, [q.c EXCEPT !.check_buffer = "source_queue_advance"], q.b)
    ELSE http_source_introfile(s, [c EXCEPT !.check_buffer = "http_source_introfile"], B)

\* the response headers are built once (respcode set) and written from the
\* listener's own refbuf
http_source_listener(s, c, B) ==
    IF c.refbuf = NULL \/ c.respcode
    THEN http_source_intro(s, [c EXCEPT !.check_buffer = "http_source_intro"], B)
    ELSE IF s.queue_size = 0 \/ ~source_running(s)
    THEN {[c |-> c, b |-> B, ret |-> -1]}
    ELSE { IF w.c.pos = w.b[w.c.refbuf].len
           THEN LET q == client_set_queue(
                            [w.c EXCEPT !.check_buffer = "http_source_intro"],
                            w.b, NULL)
                IN  [c |-> [q.c EXCEPT !.sent_bytes = 0], b |-> q.b, ret |-> w.ret]
           ELSE w
           : w \in write_buf_to_client([c EXCEPT !.respcode = TRUE], B) }

check_buffer(s, c, B) ==
    CASE c.check_buffer = "http_source_listener" -> http_source_listener(s, c, B)
      [] c.check_buffer = "http_source_intro" -> http_source_intro(s, c, B)
      [] c.check_buffer = "http_source_introfile" -> http_source_introfile(s, c, B)
      [] c.check_buffer = "source_queue_advance" -> source_queue_advance(s, c, B)
      [] OTHER -> write_buf_to_client(c, B)

\* the send loop of send_listener: at most SendLoop calls of check_buffer; it
\* ends on a dead connection, on a call that cannot write any more, when
\* enough was written (after a call at least) or when the calls are used up
RECURSIVE SendLoopOutcomes(_, _, _)
SendLoopOutcomes(s, front, n) ==
    IF front = {} THEN {}
    ELSE LET dead  == {x \in front : x.c.error}
             live  == front \ dead
             calls == IF n = 0 THEN {}
                      ELSE UNION {check_buffer(s, x.c, x.b) : x \in live}
         IN  {[c |-> x.c, b |-> x.b, ret |-> -1] : x \in dead}
             \cup {[c |-> x.c, b |-> x.b, ret |-> 0] : x \in IF n = SendLoop THEN {} ELSE live}
             \cup {[c |-> y.c, b |-> y.b, ret |-> 0] : y \in {z \in calls : z.ret < 0}}
             \cup SendLoopOutcomes(s, {[c |-> y.c, b |-> y.b] : y \in {z \in calls : z.ret >= 0}},
                                   n - 1)

source_setup_listener(s, c, l) ==
    [s |-> [s EXCEPT !.clients = @ \cup {l}, !.listeners = @ + 1],
     c |-> [c EXCEPT !.ops = IF LISTENERS_SYNC \in s.flags THEN "wait"
                             ELSE IF (s.flags \cap {RUNNING, ON_DEMAND}) = {ON_DEMAND}
                             THEN "pause" ELSE "client",
                     !.check_buffer = "http_source_listener"]]

\* refbuf_copy into the listener's own refbuf: the data and its length
refbuf_copy(B, l, r) == refbuf_new(B, PrivOf(l), B[r].len, B[r].sync)

\* a detach that takes the client out of the listener set and leaves the
\* count as it is
source_listener_detach_keeps_count(s, c, B, l) ==
    LET ref == c.refbuf
        copy == c.check_buffer # "http_source_listener" /\ ref # NULL
                /\ c.pos < B[ref].len /\ B[ref].qb
        c1 == IF c.check_buffer = "http_source_listener" THEN [c |-> c, b |-> B]
              ELSE IF copy
              THEN [c |-> [c EXCEPT !.check_buffer = "write_buf_to_client",
                                    !.refbuf = PrivOf(l), !.intro = TRUE],
                    b |-> refbuf_release(refbuf_copy(B, l, ref), ref)]
              ELSE IF ~c.intro
              THEN client_set_queue([c EXCEPT !.check_buffer = "write_buf_to_client"],
                                    B, NULL)
              ELSE [c |-> [c EXCEPT !.check_buffer = "write_buf_to_client"], b |-> B]
    IN  [s |-> [s EXCEPT !.clients = @ \ {l}],
         c |-> c1.c, b |-> c1.b]

source_listener_detach(s, c, B, l) ==
    LET ref == c.refbuf
        copy == c.check_buffer # "http_source_listener" /\ ref # NULL
                /\ c.pos < B[ref].len /\ B[ref].qb
        c1 == IF c.check_buffer = "http_source_listener" THEN [c |-> c, b |-> B]
              ELSE IF copy
              THEN [c |-> [c EXCEPT !.check_buffer = "write_buf_to_client",
                                    !.refbuf = PrivOf(l), !.intro = TRUE],
                    b |-> refbuf_release(refbuf_copy(B, l, ref), ref)]
              ELSE IF ~c.intro
              THEN client_set_queue([c EXCEPT !.check_buffer = "write_buf_to_client"],
                                    B, NULL)
              ELSE [c |-> [c EXCEPT !.check_buffer = "write_buf_to_client"], b |-> B]
    IN  [s |-> [s EXCEPT !.clients = @ \ {l}, !.listeners = @ - 1],
         c |-> c1.c, b |-> c1.b]

\* client_destroy: the client is gone and gives up the refbuf it holds
ListenerGone(c, B) ==
    [c |-> [NoListener EXCEPT !.ops = "gone"], b |-> refbuf_release(B, c.refbuf)]

\* source_listener_release, then the worker destroys the client
source_listener_release(s, c, B, l) ==
    LET d == source_listener_detach(s, c, B, l)
        g == ListenerGone(d.c, d.b)
    IN  [s |-> d.s, c |-> g.c, b |-> g.b]

\* --------------------------------------------------------------- registry
source_find_mount_raw(m) == IF m \in Mounts /\ src[m].inTree THEN m ELSE NoMount

\* source_find_mount over the sources S: the first available source along the
\* configured fallbacks
\* a walk that goes on for one hop more
RECURSIVE FindMountWalkDeep(_, _, _)
FindMountWalkDeep(S, mount, depth) ==
    IF mount = NoMount \/ depth >= MAX_FALLBACK_DEPTH + 1
    THEN [source |-> NoMount, looked |-> 0]
    ELSE IF mount \in Mounts /\ S[mount].inTree /\ source_available(S[mount])
    THEN [source |-> mount, looked |-> 1]
    ELSE LET mountinfo == config_find_mount(mount) IN
         IF ~mountinfo.present THEN [source |-> NoMount, looked |-> 1]
         ELSE LET w == FindMountWalkDeep(S, mountinfo.fallback_mount, depth + 1)
              IN  [source |-> w.source, looked |-> w.looked + 1]

\* the loop of source_find_mount; looked counts the mounts it has examined
\* with source_find_mount_raw
RECURSIVE FindMountWalk(_, _, _)
FindMountWalk(S, mount, depth) ==
    IF mount = NoMount \/ depth >= MAX_FALLBACK_DEPTH
    THEN [source |-> NoMount, looked |-> 0]
    ELSE IF mount \in Mounts /\ S[mount].inTree /\ source_available(S[mount])
    THEN [source |-> mount, looked |-> 1]
    ELSE LET mountinfo == config_find_mount(mount) IN
         IF ~mountinfo.present THEN [source |-> NoMount, looked |-> 1]
         ELSE LET w == FindMountWalk(S, mountinfo.fallback_mount, depth + 1)
              IN  [source |-> w.source, looked |-> w.looked + 1]

FindMount(S, mount, depth) == FindMountWalk(S, mount, depth).source

source_find_mount(mount) == FindMount(src, mount, 0)

\* the process is up: abort() was not reached and no freed or NULL source was used
Alive == ~glob.aborted /\ ~glob.uaf

\* the source a client's shared_data points to was freed
Freed == "freed"
Dangling(m) == m = Freed

\* ------------------------------------------------------ listener handlers
\* check_duplicate_logins: ok to add or not; the first listener of the source
\* with the username of the new one may be flagged to terminate
check_duplicate_logins(s, L, username, mountinfo) ==
    LET same == {e \in s.clients : L[e].username # NoUser /\ L[e].username = username} IN
    IF ~mountinfo.auth \/ mountinfo.allow_duplicate_users \/ username = NoUser
       \/ same = {}
    THEN [ok |-> TRUE, L |-> L]
    ELSE IF mountinfo.drop_existing_listener
    THEN LET existing_client == CHOOSE e \in same : \A x \in same : e <= x
         IN  [ok |-> TRUE, L |-> [L EXCEPT ![existing_client].error = TRUE]]
    ELSE [ok |-> FALSE, L |-> L]

\* a search that takes any available source, whatever the limits
AddListenerUnlimited(mount, minfo, mountinfo, loop, L, username) ==
    [mount |-> IF source_find_mount_raw(mount) # NoMount /\ source_available(src[mount])
               THEN mount ELSE NoMount,
     err |-> "", L |-> L, loop |-> loop]

\* a search that gives up two passes later
RECURSIVE AddListenerTargetLate(_, _, _, _, _, _)
AddListenerTargetLate(mount, minfo, mountinfo, loop, L, username) ==
    IF loop = 0 - 2
    THEN [mount |-> NoMount, err |-> "Fallback through too many mountpoints", L |-> L, loop |-> loop]
    ELSE IF source_find_mount_raw(mount) # NoMount /\ source_available(src[mount])
    THEN IF ~mountinfo.present
         THEN [mount |-> mount, err |-> "", L |-> L, loop |-> loop]
         ELSE LET d == check_duplicate_logins(src[mount], L, username, mountinfo) IN
              IF ~d.ok
              THEN [mount |-> NoMount, err |-> "Account already in use", L |-> d.L, loop |-> loop]
              ELSE IF mountinfo.max_listeners = -1
                      \/ src[mount].listeners < mountinfo.max_listeners
              THEN [mount |-> mount, err |-> "", L |-> d.L, loop |-> loop]
              ELSE IF minfo.present /\ minfo.fallback_when_full
                      /\ minfo.fallback_mount # NoMount
              THEN AddListenerTargetLate(minfo.fallback_mount, minfo, mountinfo,
                                     loop - 1, d.L, username)
              ELSE [mount |-> NoMount, err |-> "max listeners reached", L |-> d.L, loop |-> loop]
    ELSE IF ~minfo.present \/ minfo.fallback_mount = NoMount
    THEN [mount |-> NoMount, err |-> "no such mount", L |-> L, loop |-> loop]
    ELSE AddListenerTargetLate(minfo.fallback_mount,
                           config_find_mount(minfo.fallback_mount), mountinfo,
                           loop - 1, L, username)

\* the mount source_add_listener attaches the listener to, or why it does
\* not, and the listeners with the flags check_duplicate_logins has set.
\* mountinfo stays the settings of the mount asked for; minfo follows the
\* fallbacks of sources that are not available
RECURSIVE AddListenerTarget(_, _, _, _, _, _)
AddListenerTarget(mount, minfo, mountinfo, loop, L, username) ==
    IF loop = 0
    THEN [mount |-> NoMount, err |-> "Fallback through too many mountpoints", L |-> L, loop |-> loop]
    ELSE IF source_find_mount_raw(mount) # NoMount /\ source_available(src[mount])
    THEN IF ~mountinfo.present
         THEN [mount |-> mount, err |-> "", L |-> L, loop |-> loop]
         ELSE LET d == check_duplicate_logins(src[mount], L, username, mountinfo) IN
              IF ~d.ok
              THEN [mount |-> NoMount, err |-> "Account already in use", L |-> d.L, loop |-> loop]
              ELSE IF mountinfo.max_listeners = -1
                      \/ src[mount].listeners < mountinfo.max_listeners
              THEN [mount |-> mount, err |-> "", L |-> d.L, loop |-> loop]
              ELSE IF minfo.present /\ minfo.fallback_when_full
                      /\ minfo.fallback_mount # NoMount
              THEN AddListenerTarget(minfo.fallback_mount, minfo, mountinfo,
                                     loop - 1, d.L, username)
              ELSE [mount |-> NoMount, err |-> "max listeners reached", L |-> d.L, loop |-> loop]
    ELSE IF ~minfo.present \/ minfo.fallback_mount = NoMount
    THEN [mount |-> NoMount, err |-> "no such mount", L |-> L, loop |-> loop]
    ELSE AddListenerTarget(minfo.fallback_mount,
                           config_find_mount(minfo.fallback_mount), mountinfo,
                           loop - 1, L, username)

\* source_add_listener for a client that auth has given the username (NoUser
\* when there is none)
source_add_listener_user(l, m, username) ==
    /\ Alive
    /\ lis[l].ops = "none"
    /\ LET mountinfo == config_find_mount(m)
           t == AddListenerTarget(m, mountinfo, mountinfo, MAX_FALLBACK_DEPTH,
                                  lis, username)
       IN  IF t.mount = NoMount
           THEN /\ lis' = [t.L EXCEPT ![l] = [NoListener EXCEPT !.ops = "gone",
                                                                !.username = username]]
                /\ UNCHANGED <<src, buf>>
           ELSE LET c0 == [NoListener EXCEPT !.shared_data = t.mount,
                                             !.refbuf = PrivOf(l),
                                             !.username = username]
                    a == source_setup_listener(src[t.mount], c0, l)
                IN  /\ lis' = [t.L EXCEPT ![l] = a.c]
                    /\ src' = [src EXCEPT ![t.mount] = a.s]
                    /\ buf' = refbuf_new(buf, PrivOf(l), HeaderLen, FALSE)
    /\ UNCHANGED <<bc, glob, config>>

source_add_listener(l, m) == source_add_listener_user(l, m, NoUser)

\* a send_listener that does not look at the flag
MarkedNever(c, B) == FALSE

\* "the refbuf referenced at head (last in queue) may be marked for deletion"
MarkedForDeletion(c, B) == c.refbuf # NULL /\ B[c.refbuf].rel

\* send_listener with the source not in LISTENERS_SYNC, and the release of
\* the listener by send_to_listener when it returns a negative value
SendListener(l) ==
    /\ Alive
    /\ lis[l].ops = "client"
    /\ lis[l].shared_data # NoMount
    /\ ~Dangling(lis[l].shared_data)
    /\ LISTENERS_SYNC \notin src[lis[l].shared_data].flags
    /\ LET m == lis[l].shared_data
           s == src[m]
           c == lis[l]
       IN  IF c.error
           THEN LET r == source_listener_release(s, c, buf, l) IN
                /\ src' = [src EXCEPT ![m] = r.s]
                /\ lis' = [lis EXCEPT ![l] = r.c]
                /\ buf' = r.b
                /\ UNCHANGED glob
           ELSE IF ~source_running(s)
           THEN UNCHANGED <<src, lis, buf, glob>>
           ELSE \E o \in SendLoopOutcomes(s, {[c |-> c, b |-> buf]}, SendLoop) :
                \* the refbuf may be marked for deletion: the listener has
                \* fallen too far behind
                IF MarkedForDeletion(o.c, o.b)
                THEN LET q == client_set_queue(o.c, o.b, NULL)
                         r == source_listener_release(s, q.c, q.b, l)
                     IN  /\ src' = [src EXCEPT ![m] = r.s]
                         /\ lis' = [lis EXCEPT ![l] = r.c]
                         /\ buf' = r.b
                         /\ glob' = [glob EXCEPT !.slow[m] = @ + 1]
                ELSE IF o.ret < 0
                THEN LET r == source_listener_release(s, o.c, o.b, l) IN
                     /\ src' = [src EXCEPT ![m] = r.s]
                     /\ lis' = [lis EXCEPT ![l] = r.c]
                     /\ buf' = r.b
                     /\ UNCHANGED glob
                ELSE /\ lis' = [lis EXCEPT ![l] = o.c]
                     /\ buf' = o.b
                     /\ UNCHANGED <<src, glob>>
    /\ UNCHANGED <<bc, config>>

\* the connection of a listener fails
ListenerError(l) ==
    /\ Alive
    /\ lis[l].ops \in {"client", "wait", "pause"}
    /\ ~lis[l].error
    /\ lis' = [lis EXCEPT ![l].error = TRUE]
    /\ UNCHANGED <<src, buf, bc, glob, config>>

\* a listener_waiting_on_source that does not count the listener
UKeep(n) == n

\* termination_count is an unsigned long: 0 - 1 wraps
ULONG_MAX == 2147483647
UDec(n) == IF n = 0 THEN ULONG_MAX ELSE n - 1

\* the end of listener_waiting_on_source, after the fallback was tried:
\* a terminating source drops the listener (or pauses it for a relay restart),
\* else the listener waits for the other listeners
AfterMove(s, c, B, l) ==
    IF TERMINATING \in s.flags
    THEN IF PAUSE_LISTENERS \in s.flags
         THEN LET q == IF c.refbuf # NULL /\ B[c.refbuf].qb
                       THEN client_set_queue(c, B, NULL) ELSE [c |-> c, b |-> B]
              IN  [s |-> s, c |-> [q.c EXCEPT !.ops = "pause"], b |-> q.b]
         ELSE source_listener_release(s, c, B, l)
    ELSE [s |-> s, c |-> [c EXCEPT !.ops = "wait"], b |-> B]

\* send_listener with the source in LISTENERS_SYNC: listener_waiting_on_source
\* up to the point where it gives up the source mutex to call move_listener
ListenerSyncBegin(l) ==
    /\ Alive
    /\ lis[l].ops = "client"
    /\ lis[l].shared_data # NoMount
    /\ ~Dangling(lis[l].shared_data)
    /\ LISTENERS_SYNC \in src[lis[l].shared_data].flags
    /\ LET m == lis[l].shared_data
           s == [src[m] EXCEPT !.termination_count = UDec(@)]
           c == lis[l]
           r == IF c.error THEN source_listener_release(s, c, buf, l)
                ELSE IF s.fallback # NoMount
                THEN LET d == source_listener_detach(s, c, buf, l) IN
                     [s |-> d.s, c |-> [d.c EXCEPT !.ops = "moving"], b |-> d.b]
                ELSE AfterMove(s, c, buf, l)
       IN  /\ src' = [src EXCEPT ![m] = r.s]
           /\ lis' = [lis EXCEPT ![l] = r.c]
           /\ buf' = r.b
    /\ UNCHANGED <<bc, glob, config>>

\* move_listener: the first available source of the same format type along
\* the fallback chain
RECURSIVE MoveTarget(_, _, _)
MoveTarget(mount, type, loop) ==
    IF mount = NoMount \/ loop = 0 THEN NoMount
    ELSE IF source_find_mount_raw(mount) # NoMount /\ source_available(src[mount])
            /\ src[mount].ftype = type
    THEN mount
    ELSE LET minfo == config_find_mount(mount) IN
         IF minfo.present /\ minfo.fallback_mount # NoMount
         THEN MoveTarget(minfo.fallback_mount, type, loop - 1)
         ELSE NoMount

\* listener_waiting_on_source from move_listener on: the listener is set up on
\* the fallback source, or back on its own source when the move failed
ListenerSyncEnd(l) ==
    /\ Alive
    /\ lis[l].ops = "moving"
    /\ ~Dangling(lis[l].shared_data)
    /\ LET m == lis[l].shared_data
           t == MoveTarget(src[m].fallback, src[m].ftype, 2 * MAX_FALLBACK_DEPTH)
       IN  IF t # NoMount
           THEN LET a == source_setup_listener(src[t], [lis[l] EXCEPT !.shared_data = t], l)
                IN  /\ src' = [src EXCEPT ![t] = a.s]
                    /\ lis' = [lis EXCEPT ![l] = a.c]
                    /\ UNCHANGED buf
           ELSE LET a == source_setup_listener(src[m], lis[l], l)
                    r == AfterMove(a.s, a.c, buf, l)
                IN  /\ src' = [src EXCEPT ![m] = r.s]
                    /\ lis' = [lis EXCEPT ![l] = r.c]
                    /\ buf' = r.b
    /\ UNCHANGED <<bc, glob, config>>

\* wait_for_restart: a listener held over a relay restart goes back to the
\* send routine when the source runs, stops or is in sync, or when its
\* connection failed; late: it has been held for more than 15 s
wait_for_restart(l, late) ==
    /\ Alive
    /\ lis[l].ops = "pause"
    /\ ~Dangling(lis[l].shared_data)
    /\ LET s == src[lis[l].shared_data]
           c == [lis[l] EXCEPT !.error = @ \/ late]
       IN  IF source_running(s) \/ c.error \/ PAUSE_LISTENERS \notin s.flags
              \/ s.flags \cap {TERMINATING, LISTENERS_SYNC} # {}
           THEN lis' = [lis EXCEPT ![l] = [c EXCEPT !.ops = "client"]]
           ELSE lis' = [lis EXCEPT ![l] = c]
    /\ UNCHANGED <<src, buf, bc, glob, config>>

\* a wait_for_other_listeners that lets go of a listener whose connection
\* failed
wait_for_other_listeners_checks_error(l) ==
    /\ Alive
    /\ lis[l].ops = "wait"
    /\ ~Dangling(lis[l].shared_data)
    /\ (src[lis[l].shared_data].flags \cap {TERMINATING, LISTENERS_SYNC}) # {LISTENERS_SYNC}
    /\ LET m == lis[l].shared_data
           r == IF lis[l].error THEN source_listener_release(src[m], lis[l], buf, l)
                ELSE [s |-> src[m], c |-> [lis[l] EXCEPT !.ops = "client"], b |-> buf]
       IN  /\ src' = [src EXCEPT ![m] = r.s]
           /\ lis' = [lis EXCEPT ![l] = r.c]
           /\ buf' = r.b
    /\ UNCHANGED <<bc, glob, config>>

\* a listener that was processed waits while the source is in LISTENERS_SYNC
\* only; this is the call that takes it back to the send routine
wait_for_other_listeners(l) ==
    /\ Alive
    /\ lis[l].ops = "wait"
    /\ ~Dangling(lis[l].shared_data)
    /\ (src[lis[l].shared_data].flags \cap {TERMINATING, LISTENERS_SYNC}) # {LISTENERS_SYNC}
    /\ lis' = [lis EXCEPT ![l].ops = "client"]
    /\ UNCHANGED <<src, buf, bc, glob, config>>

\* a listener handler runs on a source that was freed
ListenerUseAfterFree(l) ==
    /\ Alive
    /\ lis[l].ops \in {"client", "wait", "pause", "moving"}
    /\ Dangling(lis[l].shared_data)
    /\ glob' = [glob EXCEPT !.uaf = TRUE]
    /\ UNCHANGED <<src, buf, lis, bc, config>>

\* ------------------------------------------------------------ source clients
\* uri is the mount of the request, respcode 0 until a response is chosen
NoBroadcaster ==
    [ops |-> "none", uri |-> NoMount, shared_data |-> NoMount, hijacker |-> FALSE,
     respcode |-> 0, error |-> FALSE, discon |-> "none", expired |-> FALSE]

FormatTypes == {"mp3", "ogg"}

\* _free_source by way of source_free_source: the source leaves the tree, its
\* queue is flushed and its memory freed; the clients that still point to it
\* are left with a dangling shared_data
Orphan(C, m) ==
    [x \in DOMAIN C |-> IF C[x].shared_data = m
                        THEN [C[x] EXCEPT !.shared_data = Freed] ELSE C[x]]

source_free_source(S, B, L, C, m) ==
    LET f == source_clear_source(S[m], B) IN
    [src |-> [S EXCEPT ![m] = NoSource], buf |-> f.b,
     lis |-> Orphan(L, m), bc |-> Orphan(C, m)]

\* connection_complete_source: the format plugin for the content type, then
\* source_update_settings
connection_complete_source(s, type, m) ==
    source_update_settings([s EXCEPT !.ftype = type], config.queue, config_find_mount(m))

\* a lookup that never finds the mount
reserve_lookup_blind(m, ret_exist) == [found |-> FALSE, source |-> NoMount]

\* source_reserve, the lookup: the existing source goes to a hijacker only,
\* and not while it is in LISTENERS_SYNC
reserve_lookup(m, ret_exist) ==
    IF source_find_mount_raw(m) # NoMount
    THEN [found |-> TRUE,
          source |-> IF ~ret_exist \/ LISTENERS_SYNC \in src[m].flags
                     THEN NoMount ELSE m]
    ELSE [found |-> FALSE, source |-> NoMount]

\* source_reserve, the allocation: a zeroed source_t is put in the tree
reserve_insert(S, m) == [S EXCEPT ![m] = [NoSource EXCEPT !.inTree = TRUE]]

\* source_reserve under the write lock of the tree
source_reserve(m, ret_exist) ==
    LET f == reserve_lookup(m, ret_exist) IN
    IF f.found THEN [S |-> src, source |-> f.source]
    ELSE [S |-> reserve_insert(src, m), source |-> m]

\* a swap that leaves the old source client pointing to the source
source_swap_client_keeps_old(S, C, m, b) ==
    [S |-> [S EXCEPT ![m].client = b],
     C |-> [C EXCEPT ![b].shared_data = m]]

source_swap_client(S, C, m, b) ==
    LET old_client == S[m].client
        C1 == IF old_client # NULL
              THEN [C EXCEPT ![old_client].shared_data = NoMount] ELSE C
    IN  [S |-> [S EXCEPT ![m].client = b],
         C |-> [C1 EXCEPT ![b].shared_data = m]]

\* client_destroy of a source client; the request and the response code stay
\* on record
Gone(C, b) ==
    [C EXCEPT ![b] = [NoBroadcaster EXCEPT !.ops = "gone", !.uri = C[b].uri,
                                           !.hijacker = C[b].hijacker,
                                           !.respcode = C[b].respcode]]

client_send_403(C, b) == Gone([C EXCEPT ![b].respcode = 403], b)

\* a source client asks for mount m; ok is the outcome of
\* connection_complete_source
source_startup(b, m, hijacker, type, ok) ==
    /\ Alive
    /\ bc[b].ops = "none"
    /\ LET r == source_reserve(m, hijacker)
           C0 == [bc EXCEPT ![b].hijacker = hijacker, ![b].uri = m]
           C2 == [C0 EXCEPT ![b].respcode = 200]
       IN  IF r.source = NoMount
           THEN /\ bc' = client_send_403(C0, b)
                /\ UNCHANGED <<src, buf, lis, glob>>
           ELSE IF hijacker /\ source_running(r.S[m])
           THEN LET w == source_swap_client(r.S, C2, m, b) IN
                /\ src' = w.S
                /\ bc' = [w.C EXCEPT ![b].ops = "http"]
                /\ UNCHANGED <<buf, lis, glob>>
           ELSE IF glob.sources >= config.source_limit
           THEN LET f == source_free_source(r.S, buf, lis, C0, m) IN
                /\ src' = f.src
                /\ buf' = f.buf
                /\ lis' = f.lis
                /\ bc' = client_send_403(f.bc, b)
                /\ UNCHANGED glob
           ELSE IF ~ok
           THEN LET f == source_free_source([r.S EXCEPT ![m].client = NULL],
                                            buf, lis, C0, m) IN
                /\ src' = f.src
                /\ buf' = f.buf
                /\ lis' = f.lis
                /\ bc' = client_send_403(f.bc, b)
                /\ glob' = [glob EXCEPT !.sources = @ + 1]
           ELSE /\ src' = [r.S EXCEPT ![m] =
                              connection_complete_source([@ EXCEPT !.client = b], type, m)]
                /\ bc' = [C2 EXCEPT ![b].shared_data = m, ![b].ops = "http"]
                /\ glob' = [glob EXCEPT !.sources = @ + 1]
                /\ UNCHANGED <<buf, lis>>
    /\ UNCHANGED config

\* a source_set_override that does not compare the format types
source_set_override_any_type(S, C, mount, dest, type) ==
    LET source == FindMount(S, mount, 0) IN
    IF source # NoMount /\ source # dest
       /\ S[source].listeners # 0 /\ S[source].fallback = NoMount
    THEN [S |-> [S EXCEPT ![source].fallback = dest,
                          ![source].termination_count = S[source].listeners,
                          ![source].flags = @ \cup {LISTENERS_SYNC}],
          C |-> [C EXCEPT ![S[source].client].expired = FALSE]]
    ELSE [S |-> S, C |-> C]

\* source_set_override: the listeners of the fallback that is in use are asked
\* to move (back) to the source dest that has just started
source_set_override(S, C, mount, dest, type) ==
    LET source == FindMount(S, mount, 0) IN
    IF source # NoMount /\ source # dest /\ S[source].ftype = type
       /\ S[source].listeners # 0 /\ S[source].fallback = NoMount
    THEN [S |-> [S EXCEPT ![source].fallback = dest,
                          ![source].termination_count = S[source].listeners,
                          ![source].flags = @ \cup {LISTENERS_SYNC}],
          C |-> [C EXCEPT ![S[source].client].expired = FALSE]]
    ELSE [S |-> S, C |-> C]

source_init(S, C, m) ==
    LET S1 == [S EXCEPT ![m].flags = @ \cup {RUNNING}]
        mountinfo == config_find_mount(m)
        o == IF mountinfo.present /\ mountinfo.fallback_override
                /\ mountinfo.fallback_mount # NoMount
             THEN source_set_override(S1, C, mountinfo.fallback_mount, m, S1[m].ftype)
             ELSE [S |-> S1, C |-> C]
    IN  [S |-> [o.S EXCEPT ![m].flags = @ \ {ON_DEMAND}], C |-> o.C]

\* source_client_release: what is left from the source is cleaned up
source_client_release(b) ==
    LET m == bc[b].shared_data
        f == source_free_source([src EXCEPT ![m].flags = @ \ {RUNNING, ON_DEMAND}],
                                buf, lis, bc, m)
    IN  /\ src' = f.src
        /\ buf' = f.buf
        /\ lis' = f.lis
        /\ bc' = Gone(f.bc, b)

\* source_client_http_send with source_client_callback: the 200 OK went out
\* (or failed to), the client becomes the source client proper
source_client_http_send(b, fail) ==
    /\ Alive
    /\ bc[b].ops = "http"
    /\ IF bc[b].shared_data \in {NoMount, Freed}
       THEN /\ glob' = [glob EXCEPT !.uaf = TRUE]
            /\ UNCHANGED <<src, buf, lis, bc>>
       ELSE IF bc[b].error \/ fail
       THEN /\ source_client_release(b)
            /\ glob' = [glob EXCEPT !.sources = @ - 1]
       ELSE LET m == bc[b].shared_data
                C == [bc EXCEPT ![b].ops = "read"]
                i == IF source_running(src[m]) THEN [S |-> src, C |-> C]
                     ELSE source_init(src, C, m)
            IN  /\ src' = i.S
                /\ bc' = i.C
                /\ UNCHANGED <<buf, lis, glob>>
    /\ UNCHANGED config

\* what the socket of the source client has for one call of source_read:
\* nothing ("idle"), an unrecoverable error or the timeout ("fail"), or data
\* that format->get_buffer turns into the refbufs bs
Lens == {Half, QueueSlack}
GetBufferLoop == 2
BlockInputs == [len : Lens, sync : BOOLEAN]
DataInputs(B) ==
    {<<>>} \cup {<<x>> : x \in {y \in BlockInputs : Cardinality(FreeSlots(B)) >= 1}}
           \cup {<<x[1], x[2]>> : x \in {y \in BlockInputs \X BlockInputs :
                                            Cardinality(FreeSlots(B)) >= GetBufferLoop}}

\* the inner loop of source_read; memory released in this call is not handed
\* out again before the call is over: the new refbufs come from F
RECURSIVE AppendAll(_, _, _, _)
AppendAll(s, B, bs, F) ==
    IF bs = <<>> THEN [s |-> s, b |-> B, abort |-> FALSE]
    ELSE LET r == NewSlot(F)
             a == QueueAppend(s, B, r, Head(bs).len, Head(bs).sync)
         IN  IF a.abort THEN a ELSE AppendAll(a.s, a.b, Tail(bs), F \ {r})

\* a source_read that stops the source when the round has come to 0
source_read_stops_at_zero(s, B, c, kind, bs) ==
    LET watchdog == LISTENERS_SYNC \in s.flags /\ s.termination_count # 0
        s0 == IF LISTENERS_SYNC \in s.flags /\ s.termination_count = 0
              THEN [s EXCEPT !.fallback = NoMount,
                             !.flags = @ \ {RUNNING, LISTENERS_SYNC}]
              ELSE s
    IN  IF watchdog
        THEN [s |-> IF c.expired
                    THEN [s EXCEPT !.flags = @ \ {RUNNING, LISTENERS_SYNC}] ELSE s,
              b |-> B, abort |-> FALSE]
        ELSE IF kind = "fail"
        THEN [s |-> [s0 EXCEPT !.flags = @ \ {RUNNING}], b |-> B, abort |-> FALSE]
        ELSE IF kind = "idle"
        THEN [s |-> s0, b |-> B, abort |-> FALSE]
        ELSE LET a == AppendAll(s0, B, bs, FreeSlots(B))
                 s1 == IF Len(bs) < GetBufferLoop /\ c.error
                       THEN [a.s EXCEPT !.flags = @ \ {RUNNING}] ELSE a.s
                 q == QueueTrim(s1, a.b)
             IN  IF a.abort THEN a ELSE [s |-> q.s, b |-> q.b, abort |-> FALSE]

\* source_read: returns the source, the refbufs, the timer of the source
\* client and whether abort() was called
\* a source_read whose watchdog stops the source and leaves it in sync
source_read_keeps_sync(s, B, c, kind, bs) ==
    [s |-> IF c.expired THEN [s EXCEPT !.flags = @ \ {RUNNING}] ELSE s,
     b |-> B, abort |-> FALSE]

source_read(s, B, c, kind, bs) ==
    LET watchdog == LISTENERS_SYNC \in s.flags /\ s.termination_count # 0
        s0 == IF LISTENERS_SYNC \in s.flags /\ s.termination_count = 0
              THEN [s EXCEPT !.fallback = NoMount, !.flags = @ \ {LISTENERS_SYNC}]
              ELSE s
    IN  IF watchdog
        THEN [s |-> IF c.expired
                    THEN [s EXCEPT !.flags = @ \ {RUNNING, LISTENERS_SYNC}] ELSE s,
              b |-> B, abort |-> FALSE]
        ELSE IF kind = "fail"
        THEN [s |-> [s0 EXCEPT !.flags = @ \ {RUNNING}], b |-> B, abort |-> FALSE]
        ELSE IF kind = "idle"
        THEN [s |-> s0, b |-> B, abort |-> FALSE]
        ELSE LET a == AppendAll(s0, B, bs, FreeSlots(B))
                 s1 == IF Len(bs) < GetBufferLoop /\ c.error
                       THEN [a.s EXCEPT !.flags = @ \ {RUNNING}] ELSE a.s
                 q == QueueTrim(s1, a.b)
             IN  IF a.abort THEN a ELSE [s |-> q.s, b |-> q.b, abort |-> FALSE]

source_set_fallback(s, dest_mount) ==
    IF dest_mount = NoMount \/ s.listeners = 0 THEN s
    ELSE [s EXCEPT !.fallback = dest_mount]

source_shutdown(s, m) ==
    LET s1 == [s EXCEPT !.flags = (@ \ {ON_DEMAND, TIMEOUT}) \cup {TERMINATING, LISTENERS_SYNC},
                        !.termination_count = s.listeners]
        mountinfo == config_find_mount(m)
    IN  IF mountinfo.present THEN source_set_fallback(s1, mountinfo.fallback_mount) ELSE s1

\* a source_client_read that calls source_shutdown whatever the flags
SourceStoppedAgain(s, C, b, m) ==
    LET s1 == source_shutdown(s, m)
        C1 == [C EXCEPT ![s.client].expired = FALSE]
    IN  IF s1.termination_count # 0 /\ s1.termination_count <= s1.listeners
        THEN [s |-> s1, C |-> C1]
        ELSE IF s1.listeners # 0
        THEN [s |-> [s1 EXCEPT !.flags = (@ \ {PAUSE_LISTENERS}) \cup {LISTENERS_SYNC}],
              C |-> C1]
        ELSE [s |-> [s1 EXCEPT !.fallback = NoMount, !.flags = @ \ {LISTENERS_SYNC}],
              C |-> [C1 EXCEPT ![b].ops = "halt", ![b].discon = "none"]]

\* source_client_read with the source not running; client->timer_start is
\* read from the caller b and set in the client of the source
SourceStopped(s, C, b, m) ==
    LET first == TERMINATING \notin s.flags
        s1 == IF first THEN source_shutdown(s, m) ELSE s
        C1 == IF first THEN [C EXCEPT ![s.client].expired = FALSE] ELSE C
    IN  IF s1.termination_count # 0 /\ s1.termination_count <= s1.listeners
        THEN [s |-> IF C1[b].expired THEN [s1 EXCEPT !.flags = @ \ {TERMINATING}] ELSE s1,
              C |-> C1]
        ELSE IF s1.listeners # 0
        THEN [s |-> [s1 EXCEPT !.termination_count = s1.listeners,
                               !.flags = (@ \ {PAUSE_LISTENERS}) \cup {LISTENERS_SYNC}],
              C |-> [C1 EXCEPT ![b].expired = FALSE]]
        ELSE [s |-> [s1 EXCEPT !.fallback = NoMount, !.flags = @ \ {LISTENERS_SYNC}],
              C |-> [C1 EXCEPT ![b].ops = "halt", ![b].discon = "none"]]

source_client_read(b, kind, bs) ==
    /\ Alive
    /\ bc[b].ops = "read"
    /\ IF bc[b].shared_data = NoMount
       THEN \* hijacked: the worker destroys the old source client
            /\ bc' = Gone(bc, b)
            /\ UNCHANGED <<src, buf, glob>>
       ELSE IF Dangling(bc[b].shared_data)
       THEN /\ glob' = [glob EXCEPT !.uaf = TRUE]
            /\ UNCHANGED <<src, buf, bc>>
       ELSE LET m == bc[b].shared_data IN
            IF source_running(src[m])
            THEN LET r == source_read(src[m], buf, bc[src[m].client], kind, bs) IN
                 /\ src' = [src EXCEPT ![m] = r.s]
                 /\ buf' = r.b
                 /\ glob' = [glob EXCEPT !.aborted = r.abort]
                 /\ UNCHANGED bc
            ELSE LET r == SourceStopped(src[m], bc, b, m) IN
                 /\ src' = [src EXCEPT ![m] = r.s]
                 /\ bc' = r.C
                 /\ UNCHANGED <<buf, glob>>
    /\ UNCHANGED <<lis, config>>

\* source_client_shutdown: the source may be kept reserved for wait_time;
\* a negative return has the worker call source_client_release
source_client_shutdown(b) ==
    /\ Alive
    /\ bc[b].ops = "halt"
    /\ bc[b].discon # "pending"
    /\ IF bc[b].discon = "none" /\ bc[b].shared_data \in {NoMount, Freed}
       THEN /\ glob' = [glob EXCEPT !.uaf = TRUE]
            /\ UNCHANGED <<src, buf, lis, bc>>
       ELSE IF bc[b].discon = "passed"
       THEN IF bc[b].shared_data \in {NoMount, Freed}
            THEN /\ glob' = [glob EXCEPT !.uaf = TRUE]
                 /\ UNCHANGED <<src, buf, lis, bc>>
            ELSE /\ source_client_release(b)
                 /\ UNCHANGED glob
       ELSE IF src[bc[b].shared_data].wait_time
       THEN /\ bc' = [bc EXCEPT ![b].discon = "pending"]
            /\ glob' = [glob EXCEPT !.sources = @ - 1]
            /\ UNCHANGED <<src, buf, lis>>
       ELSE /\ source_client_release(b)
            /\ glob' = [glob EXCEPT !.sources = @ - 1]
    /\ UNCHANGED config

\* ------------------------------------------------------------- environment
\* the connection of a source client fails or is closed by the peer
BroadcasterError(b) ==
    /\ Alive
    /\ bc[b].ops \in {"http", "read"}
    /\ ~bc[b].error
    /\ bc' = [bc EXCEPT ![b].error = TRUE]
    /\ UNCHANGED <<src, buf, lis, glob, config>>

\* the relay code marks a running source: its listeners are to be held
\* over a restart
PauseListeners(m) ==
    /\ Alive
    /\ src[m].inTree /\ source_running(src[m])
    /\ PAUSE_LISTENERS \notin src[m].flags
    /\ src' = [src EXCEPT ![m].flags = @ \cup {PAUSE_LISTENERS}]
    /\ UNCHANGED <<buf, lis, bc, glob, config>>

\* 1500 ms have gone by since client->timer_start
TimerExpire(b) ==
    /\ Alive
    /\ bc[b].ops = "read"
    /\ ~bc[b].expired
    /\ bc[b].shared_data \in Mounts
    /\ src[bc[b].shared_data].termination_count # 0
    /\ bc' = [bc EXCEPT ![b].expired = TRUE]
    /\ UNCHANGED <<src, buf, lis, glob, config>>

\* connection.discon_time of a source client in its wait time is reached
DisconPass(b) ==
    /\ Alive
    /\ bc[b].discon = "pending"
    /\ bc' = [bc EXCEPT ![b].discon = "passed"]
    /\ UNCHANGED <<src, buf, lis, glob, config>>

\* a new configuration is loaded: source_recheck_mounts (update_all) applies
\* the settings to every available source
ConfigReload(q) ==
    /\ Alive
    /\ q # config.queue
    /\ config' = [config EXCEPT !.queue = q]
    /\ src' = [m \in Mounts |->
                 IF src[m].inTree /\ source_available(src[m])
                 THEN source_update_settings(src[m], q, config_find_mount(m))
                 ELSE src[m]]
    /\ UNCHANGED <<buf, lis, bc, glob>>

\* ------------------------------------------------------------ specification
\* the configuration: mount a falls back to mount b and takes its listeners
\* back when it starts (fallback-override)
MountSettings ==
    [m \in Mounts |->
        IF m = "a"
        THEN [NoMountInfo EXCEPT !.present = TRUE, !.fallback_mount = "b",
                                 !.fallback_override = TRUE]
        ELSE [NoMountInfo EXCEPT !.present = TRUE]]

SourceLimit == 2

Init ==
    /\ src = [m \in Mounts |-> NoSource]
    /\ buf = [r \in AllBufs |-> FreeBuf]
    /\ lis = [l \in Listeners |-> NoListener]
    /\ bc = [b \in Broadcasters |-> NoBroadcaster]
    /\ glob = [sources |-> 0, slow |-> [m \in Mounts |-> 0],
               aborted |-> FALSE, uaf |-> FALSE]
    /\ config \in {[queue |-> q, mount |-> MountSettings, source_limit |-> SourceLimit] :
                     q \in QueueConfigs}

\* One stream: source client 1 on mount a with every input of source_read,
\* configuration reloads, and listener 1
StreamData(B) == {bs \in DataInputs(B) : \A i \in DOMAIN bs : bs[i].len = QueueSlack}

Next ==
    \/ \E ok \in BOOLEAN : source_startup(1, "a", FALSE, "mp3", ok)
    \/ \E fail \in BOOLEAN : source_client_http_send(1, fail)
    \/ source_client_read(1, "idle", <<>>)
    \/ source_client_read(1, "fail", <<>>)
    \/ \E bs \in StreamData(buf) : source_client_read(1, "data", bs)
    \/ source_client_shutdown(1)
    \/ BroadcasterError(1)
    \/ TimerExpire(1)
    \/ \E q \in QueueConfigs : ConfigReload(q)
    \/ source_add_listener(1, "a")
    \/ SendListener(1)
    \/ ListenerSyncBegin(1)
    \/ ListenerSyncEnd(1)
    \/ wait_for_other_listeners(1)
    \/ ListenerError(1)

Spec == Init /\ [][Next]_vars

\* Two streams: source client 1 on mount b, source client 2 on mount a, which
\* falls back to b; the sources read one block at a time, listener 1 asks
\* for mount a
LifeInit ==
    /\ Init
    /\ config.queue.min_queue_size = 0

LifeData(B) == {bs \in DataInputs(B) : Len(bs) = 1 /\ bs[1].sync /\ bs[1].len = Half}

\* with source client 3 a hijacker of either mount; any source may fail
HijackNext ==
    \/ source_startup(1, "b", FALSE, "mp3", TRUE)
    \/ source_startup(2, "a", FALSE, "mp3", TRUE)
    \/ \E m \in Mounts, ok \in BOOLEAN : source_startup(3, m, TRUE, "mp3", ok)
    \/ \E b \in Broadcasters, fail \in BOOLEAN : source_client_http_send(b, fail)
    \/ \E b \in Broadcasters : source_client_read(b, "idle", <<>>)
    \/ \E b \in Broadcasters : source_client_read(b, "fail", <<>>)
    \/ \E b \in Broadcasters, bs \in LifeData(buf) : source_client_read(b, "data", bs)
    \/ \E b \in Broadcasters : source_client_shutdown(b)
    \/ \E b \in Broadcasters : TimerExpire(b)
    \/ source_add_listener(1, "a")
    \/ SendListener(1)
    \/ ListenerSyncBegin(1)
    \/ ListenerSyncEnd(1)
    \/ wait_for_other_listeners(1)
    \/ ListenerUseAfterFree(1)

SpecHijack == LifeInit /\ [][HijackNext]_vars

\* the fallback b never fails, the source of mount a may; the worker threads
\* keep calling the process function of every client, whatever the peers
\* send, and time goes by
FallbackClients == {1, 2}

SourceClientStep(b) ==
    \/ source_client_http_send(b, FALSE)
    \/ source_client_read(b, "idle", <<>>)
    \/ source_client_shutdown(b)

ListenerStep(l) ==
    \/ SendListener(l)
    \/ ListenerSyncBegin(l)
    \/ ListenerSyncEnd(l)
    \/ wait_for_other_listeners(l)
    \/ ListenerUseAfterFree(l)

FallbackNext ==
    \/ source_startup(1, "b", FALSE, "mp3", TRUE)
    \/ source_startup(2, "a", FALSE, "mp3", TRUE)
    \/ \E b \in FallbackClients : SourceClientStep(b)
    \/ \E b \in FallbackClients, bs \in LifeData(buf) : source_client_read(b, "data", bs)
    \/ source_client_read(2, "fail", <<>>)
    \/ \E b \in FallbackClients : TimerExpire(b)
    \/ source_add_listener(1, "a")
    \/ ListenerStep(1)

SpecFallback ==
    /\ LifeInit
    /\ [][FallbackNext]_vars
    /\ \A b \in FallbackClients : WF_vars(SourceClientStep(b))
    /\ \A b \in FallbackClients : WF_vars(TimerExpire(b))
    /\ WF_vars(ListenerStep(1))

\* ---------------------------------------------------- concurrent reservers
\* source_reserve step by step, for callers on different threads: the write
\* lock of global.source_tree, the lookup, the insertion, the unlock.  The
\* state of each call (its arguments, its local src) and the holder of the
\* lock are kept in glob; dup counts the nodes of a mount beyond the first.
Reservers == {2, 3}
NoCall == [pc |-> "none", mount |-> NoMount, ret_exist |-> FALSE,
           src |-> NoMount, created |-> FALSE]

ReserveInit ==
    /\ src = [m \in Mounts |-> NoSource]
    /\ buf = [r \in AllBufs |-> FreeBuf]
    /\ lis = [l \in Listeners |-> NoListener]
    /\ bc = [b \in Broadcasters |-> NoBroadcaster]
    /\ glob = [sources |-> 0, slow |-> [m \in Mounts |-> 0],
               aborted |-> FALSE, uaf |-> FALSE,
               tree_lock |-> NULL, dup |-> [m \in Mounts |-> 0],
               call |-> [b \in Reservers |-> NoCall]]
    /\ config \in {[queue |-> q, mount |-> MountSettings, source_limit |-> SourceLimit] :
                     q \in {x \in QueueConfigs : x.min_queue_size = 0}}

\* nobody holds the lock of the source tree
TreeFree == glob.tree_lock = NULL

avl_tree_wlock(b, m, ret_exist) ==
    /\ Alive
    /\ glob.call[b].pc = "none"
    /\ TreeFree
    /\ glob' = [glob EXCEPT !.tree_lock = b,
                            !.call[b] = [NoCall EXCEPT !.pc = "find", !.mount = m,
                                                       !.ret_exist = ret_exist]]
    /\ UNCHANGED <<src, buf, lis, bc, config>>

ReserveFind(b) ==
    /\ glob.call[b].pc = "find"
    /\ LET f == reserve_lookup(glob.call[b].mount, glob.call[b].ret_exist) IN
       glob' = [glob EXCEPT !.call[b].pc = IF f.found THEN "unlock" ELSE "insert",
                            !.call[b].src = f.source]
    /\ UNCHANGED <<src, buf, lis, bc, config>>

ReserveInsert(b) ==
    /\ glob.call[b].pc = "insert"
    /\ LET m == glob.call[b].mount IN
       /\ src' = IF src[m].inTree THEN src ELSE reserve_insert(src, m)
       /\ glob' = [glob EXCEPT !.call[b].pc = "unlock", !.call[b].src = m,
                               !.call[b].created = TRUE,
                               !.dup[m] = IF src[m].inTree THEN @ + 1 ELSE @]
    /\ UNCHANGED <<buf, lis, bc, config>>

avl_tree_unlock(b) ==
    /\ glob.call[b].pc = "unlock"
    /\ glob' = [glob EXCEPT !.call[b].pc = "done",
                            !.tree_lock = IF @ = b THEN NULL ELSE @]
    /\ UNCHANGED <<src, buf, lis, bc, config>>

\* source client 1 runs mount b with listener 1, while the reservers call
\* source_reserve; the handlers that lock the source tree wait for it (mount b
\* has no fallback, so its listeners are never handed to move_listener)
ReserveNext ==
    \/ \E b \in Reservers, m \in Mounts, e \in BOOLEAN : avl_tree_wlock(b, m, e)
    \/ \E b \in Reservers : ReserveFind(b)
    \/ \E b \in Reservers : ReserveInsert(b)
    \/ \E b \in Reservers : avl_tree_unlock(b)
    \/ TreeFree /\ source_startup(1, "b", FALSE, "mp3", TRUE)
    \/ TreeFree /\ \E fail \in BOOLEAN : source_client_http_send(1, fail)
    \/ source_client_read(1, "idle", <<>>)
    \/ source_client_read(1, "fail", <<>>)
    \/ TreeFree /\ source_client_shutdown(1)
    \/ TimerExpire(1)
    \/ TreeFree /\ source_add_listener(1, "b")
    \/ SendListener(1)
    \/ ListenerSyncBegin(1)
    \/ wait_for_other_listeners(1)

SpecReserve == ReserveInit /\ [][ReserveNext]_vars

\* ------------------------------------------------------ fallback settings
\* every way two mounts can be configured to fall back: no <mount> section, no
\* fallback, a fallback to the other mount or to itself (cycles included),
\* with or without fallback-override
MountChoices ==
    {NoMountInfo} \cup
    {[NoMountInfo EXCEPT !.present = TRUE, !.fallback_mount = f, !.fallback_override = o] :
        f \in Mounts \cup {NoMount}, o \in BOOLEAN}

FindInit ==
    /\ src = [m \in Mounts |-> NoSource]
    /\ buf = [r \in AllBufs |-> FreeBuf]
    /\ lis = [l \in Listeners |-> NoListener]
    /\ bc = [b \in Broadcasters |-> NoBroadcaster]
    /\ glob = [sources |-> 0, slow |-> [m \in Mounts |-> 0],
               aborted |-> FALSE, uaf |-> FALSE]
    /\ config \in {[queue |-> q, mount |-> ms, source_limit |-> SourceLimit] :
                     q \in {x \in QueueConfigs : x.min_queue_size = 0},
                     ms \in [Mounts -> MountChoices]}

\* source client 1 on mount b, source client 2 on mount a, listener 1 asks
\* for mount a; no stream data is read
FindNext ==
    \/ source_startup(1, "b", FALSE, "mp3", TRUE)
    \/ source_startup(2, "a", FALSE, "mp3", TRUE)
    \/ \E b \in FallbackClients : source_client_http_send(b, FALSE)
    \/ \E b \in FallbackClients : source_client_read(b, "idle", <<>>)
    \/ \E b \in FallbackClients : source_client_read(b, "fail", <<>>)
    \/ \E b \in FallbackClients : source_client_shutdown(b)
    \/ \E b \in FallbackClients : TimerExpire(b)
    \/ source_add_listener(1, "a")
    \/ ListenerStep(1)

SpecFind == FindInit /\ [][FindNext]_vars

\* ------------------------------------------------------------- admission
\* mount a has any listener limit up to one, falls back to mount b and may
\* send listeners there when full; its auth may refuse a second login of a
\* user or drop the first.  Mount b has no limit
Users == {"u"}
AdmitChoices ==
    {[NoMountInfo EXCEPT !.present = TRUE, !.fallback_mount = "b",
                         !.fallback_when_full = w, !.max_listeners = n,
                         !.auth = au.auth,
                         !.allow_duplicate_users = ~au.auth,
                         !.drop_existing_listener = au.drop] :
        w \in BOOLEAN, n \in {-1, 0, 1},
        au \in {[auth |-> FALSE, drop |-> FALSE], [auth |-> TRUE, drop |-> FALSE],
                [auth |-> TRUE, drop |-> TRUE]}}

AdmitInit ==
    /\ src = [m \in Mounts |-> NoSource]
    /\ buf = [r \in AllBufs |-> FreeBuf]
    /\ lis = [l \in Listeners |-> NoListener]
    /\ bc = [b \in Broadcasters |-> NoBroadcaster]
    /\ glob = [sources |-> 0, slow |-> [m \in Mounts |-> 0],
               aborted |-> FALSE, uaf |-> FALSE]
    /\ config \in {[queue |-> q,
                     mount |-> [m \in Mounts |->
                                  IF m = "a" THEN ma
                                  ELSE [NoMountInfo EXCEPT !.present = TRUE]],
                     source_limit |-> SourceLimit] :
                     q \in {x \in QueueConfigs : x.min_queue_size = 0},
                     ma \in AdmitChoices}

\* source client 1 on mount b, source client 2 on mount a; every listener
\* asks for mount a, with or without a username; no stream data is read
AdmitNext ==
    \/ source_startup(1, "b", FALSE, "mp3", TRUE)
    \/ source_startup(2, "a", FALSE, "mp3", TRUE)
    \/ \E b \in FallbackClients : source_client_http_send(b, FALSE)
    \/ \E b \in FallbackClients : source_client_read(b, "idle", <<>>)
    \/ \E b \in FallbackClients : source_client_read(b, "fail", <<>>)
    \/ \E b \in FallbackClients : source_client_shutdown(b)
    \/ \E b \in FallbackClients : TimerExpire(b)
    \/ \E l \in Listeners, u \in Users \cup {NoUser} : source_add_listener_user(l, "a", u)
    \/ \E l \in Listeners : ListenerStep(l)

SpecAdmit == AdmitInit /\ [][AdmitNext]_vars

\* ---------------------------------------------------------- cancellation
\* one stream on mount a, whose fallback b has no source; the connections of
\* the source client and of listener 1 may fail at any time, and the
\* source may be marked to hold its listeners over a restart
\* a listener that is paused by a terminating source passes through
\* listener_waiting_on_source again and again; the model follows
\* termination_count for MaxWrap steps below zero
WithinWrap(m) ==
    \/ src[m].termination_count <= NumListeners
    \/ src[m].termination_count > ULONG_MAX - MaxWrap

CancelData(B) == LifeData(B) \cup {<<>>}

CancelNext ==
    \/ source_startup(1, "a", FALSE, "mp3", TRUE)
    \/ source_client_http_send(1, FALSE)
    \/ source_client_read(1, "idle", <<>>)
    \/ source_client_read(1, "fail", <<>>)
    \/ \E bs \in CancelData(buf) : source_client_read(1, "data", bs)
    \/ source_client_shutdown(1)
    \/ BroadcasterError(1)
    \/ TimerExpire(1)
    \/ PauseListeners("a")
    \/ source_add_listener(1, "a")
    \/ ListenerStep(1)
    \/ /\ WithinWrap("a")
       /\ \E late \in BOOLEAN : wait_for_restart(1, late)
    \/ ListenerError(1)

SpecCancel == LifeInit /\ [][CancelNext]_vars

\* ------------------------------------------------------------ sync rounds
\* source client 1 on mount b, source client 2 on mount a, which falls back
\* to b and takes the listeners back when it starts; every listener asks
\* for mount a, and its connection may fail; no stream data is read
SyncNext ==
    \/ source_startup(1, "b", FALSE, "mp3", TRUE)
    \/ source_startup(2, "a", FALSE, "mp3", TRUE)
    \/ \E b \in FallbackClients : source_client_http_send(b, FALSE)
    \/ \E b \in FallbackClients : source_client_read(b, "idle", <<>>)
    \/ \E b \in FallbackClients : source_client_read(b, "fail", <<>>)
    \/ \E b \in FallbackClients : source_client_shutdown(b)
    \/ \E b \in FallbackClients : TimerExpire(b)
    \/ \E l \in Listeners : source_add_listener(l, "a")
    \/ \E l \in Listeners : ListenerStep(l)
    \/ \E l \in Listeners : ListenerError(l)

SpecSync == LifeInit /\ [][SyncNext]_vars

\* ------------------------------------------------------------- long blocks
\* format->get_buffer sets the length of a refbuf; nothing in source_read
\* compares it with queue_size_limit. One stream on mount a whose blocks are
\* as long as the smallest queue_size_limit or longer than it
LongBlock == QueueSlack + Half
TrimData(B) ==
    {bs \in {<<[len |-> n, sync |-> TRUE]>> : n \in {QueueSlack, LongBlock}} :
        FreeSlots(B) # {}}

TrimNext ==
    \/ source_startup(1, "a", FALSE, "mp3", TRUE)
    \/ source_client_http_send(1, FALSE)
    \/ source_client_read(1, "idle", <<>>)
    \/ source_client_read(1, "fail", <<>>)
    \/ \E bs \in TrimData(buf) : source_client_read(1, "data", bs)
    \/ source_client_shutdown(1)
    \/ source_add_listener(1, "a")
    \/ SendListener(1)
    \/ ListenerSyncBegin(1)
    \/ ListenerSyncEnd(1)
    \/ ListenerUseAfterFree(1)

SpecTrim == LifeInit /\ [][TrimNext]_vars


\* ------------------------------------------------------------ lock order
\* The calls of source.c on the lock of global.source_tree, on the mutex of
\* each source and on workers_lock, in the order the code makes them on each
\* path.  Every
\* thread runs one path at a time; glob keeps the holders of the locks and
\* where each thread is.
Threads == {1, 2}
avl_tree_rlock_op == [op |-> "rlock", m |-> NoMount]
avl_tree_wlock_op == [op |-> "wlock", m |-> NoMount]
avl_tree_unlock_op == [op |-> "tunlock", m |-> NoMount]
thread_mutex_lock(m) == [op |-> "lock", m |-> m]
thread_mutex_unlock(m) == [op |-> "unlock", m |-> m]
workers_rlock_op == [op |-> "prlock", m |-> NoMount]
workers_wlock_op == [op |-> "pwlock", m |-> NoMount]
workers_unlock_op == [op |-> "punlock", m |-> NoMount]

source_reserve_locks == <<avl_tree_wlock_op, avl_tree_unlock_op>>

\* a source_free_source that takes the mutex of the source before the tree
source_free_source_mutex_first(m) ==
    <<thread_mutex_lock(m), avl_tree_wlock_op, thread_mutex_unlock(m),
      avl_tree_unlock_op>>

\* source_free_source; avl_delete calls _free_source, which unlocks the source
source_free_source_locks(m) ==
    <<avl_tree_wlock_op, thread_mutex_lock(m), thread_mutex_unlock(m),
      avl_tree_unlock_op>>

\* source_set_override for the fallback f of the source that starts: f has a
\* source in use (found) or not
source_set_override_locks(f, found) ==
    IF found
    THEN <<avl_tree_rlock_op, thread_mutex_lock(f), thread_mutex_unlock(f),
           avl_tree_unlock_op>>
    ELSE <<avl_tree_rlock_op, avl_tree_unlock_op>>

\* a source_init that keeps the mutex of m until the override is done
source_init_keeps_mutex(m, f, found) ==
    (IF f = NoMount THEN <<>> ELSE source_set_override_locks(f, found))
        \o <<thread_mutex_unlock(m)>>

\* source_init is entered with the mutex of m held; f is the fallback to
\* override, if any
source_init_locks(m, f, found) ==
    <<thread_mutex_unlock(m)>>
        \o (IF f = NoMount THEN <<>> ELSE source_set_override_locks(f, found))

\* source_client_callback is entered with the mutex of m held
source_client_callback_locks(m, init, f, found) ==
    IF init THEN source_init_locks(m, f, found) ELSE <<thread_mutex_unlock(m)>>

source_client_http_send_locks(m, init, f, found) ==
    <<thread_mutex_lock(m)>> \o source_client_callback_locks(m, init, f, found)

\* source_startup: how it ends is "in use", "hijack", "limit" (too many
\* streams), "type" (content type not supported), "http" (the 200 OK is
\* queued) or "shoutcast" (source_client_callback is called at once)
source_startup_locks(m, how, f, found) ==
    source_reserve_locks \o
    (IF how = "in use" THEN <<>>
     ELSE IF how = "hijack" THEN <<thread_mutex_lock(m), thread_mutex_unlock(m)>>
     ELSE <<thread_mutex_lock(m), thread_mutex_unlock(m)>> \o
          (IF how = "limit" THEN source_free_source_locks(m)
           ELSE <<thread_mutex_lock(m)>> \o
                (IF how = "type"
                 THEN <<thread_mutex_unlock(m)>> \o source_free_source_locks(m)
                 ELSE IF how = "shoutcast"
                 THEN source_client_callback_locks(m, TRUE, f, found)
                 ELSE <<thread_mutex_unlock(m)>>)))
StartupEnds == {"in use", "hijack", "limit", "type", "http", "shoutcast"}

\* source_change_worker and listener_change_worker are entered with the
\* mutex of m held: no migration is tried ("stay"), client_change_worker
\* fails ("failed") or the client is on another worker ("moved", returns 1);
\* workers_lock is read-locked from the choice of the worker to the return
change_worker_locks(m, how) ==
    IF how = "moved"
    THEN [ops |-> <<workers_rlock_op, thread_mutex_unlock(m), workers_unlock_op>>,
          ret |-> 1]
    ELSE IF how = "failed"
    THEN [ops |-> <<workers_rlock_op, thread_mutex_unlock(m), thread_mutex_lock(m),
                    workers_unlock_op>>,
          ret |-> 0]
    ELSE [ops |-> <<workers_rlock_op, workers_unlock_op>>, ret |-> 0]
Migrations == {"stay", "failed", "moved"}

\* source_read is entered with the mutex held: it waits for a sync round
\* ("sync wait") or goes on to the worker balance test and the read
source_read_locks(m, how) ==
    IF how = "sync wait" THEN [ops |-> <<thread_mutex_unlock(m)>>, ret |-> 0]
    ELSE LET w == change_worker_locks(m, how) IN
         IF w.ret = 1 THEN w
         ELSE [ops |-> w.ops \o <<thread_mutex_unlock(m)>>, ret |-> 0]

\* source_client_read: the source client was hijacked, the source is over
\* its rate limit, is not running ("stopped", or "recheck" when a new round
\* is started), or source_read is called
source_client_read_locks(m, how) ==
    IF how = "hijacked" THEN <<>>
    ELSE IF how \in {"limit_rate", "stopped", "recheck"}
    THEN <<thread_mutex_lock(m), thread_mutex_unlock(m)>>
    ELSE <<thread_mutex_lock(m)>> \o source_read_locks(m, how).ops
ReadEnds == {"hijacked", "limit_rate", "stopped", "recheck", "sync wait"} \cup Migrations

\* the first send_to_listener for a listener that source_add_listener has
\* put on the source of m
send_to_listener_first(m) == <<thread_mutex_lock(m), thread_mutex_unlock(m)>>

source_client_shutdown_locks(m) == <<thread_mutex_lock(m), thread_mutex_unlock(m)>>

source_client_release_locks(m) ==
    <<thread_mutex_lock(m), thread_mutex_unlock(m)>> \o source_free_source_locks(m)

source_recheck_mounts_locks == <<avl_tree_rlock_op, avl_tree_unlock_op>>

\* one pass of the search of source_add_listener for mount m: "none" (no
\* source in the tree), "unavailable", "full" (the jump of
\* fallback_when_full), "refused" or "admitted"
AddListenerPass(m, how) ==
    IF how = "none" THEN <<avl_tree_rlock_op, avl_tree_unlock_op>>
    ELSE IF how = "unavailable"
    THEN <<avl_tree_rlock_op, thread_mutex_lock(m), thread_mutex_unlock(m),
           avl_tree_unlock_op>>
    ELSE <<avl_tree_rlock_op, thread_mutex_lock(m), avl_tree_unlock_op,
           thread_mutex_unlock(m)>>
PassEnds == {"none", "unavailable", "full", "refused", "admitted"}

\* source_add_listener: a pass for mount m that may be followed by a pass
\* for its fallback f; an admitted listener that is active is processed at
\* once (send_to_listener)
source_add_listener_locks(m, how, f, then, process) ==
    LET hop == how \in {"none", "unavailable", "full"} /\ f # NoMount
        last == IF hop THEN then ELSE how
    IN  AddListenerPass(m, how)
            \o (IF hop THEN AddListenerPass(f, then) ELSE <<>>)
            \o (IF process /\ last = "admitted"
                THEN send_to_listener_first(IF hop THEN f ELSE m) ELSE <<>>)

\* listener_waiting_on_source: the listener of m is handed to the fallback
\* f, the mutex being given up around move_listener ("handoff"), or it has
\* failed ("error") or waits for the others ("sync wait")
listener_waiting_on_source_locks(m, how, f, then, process) ==
    IF how = "handoff"
    THEN [ops |-> <<thread_mutex_unlock(m)>>
                    \o source_add_listener_locks(f, then, NoMount, then, process)
                    \o <<thread_mutex_lock(m)>>,
          ret |-> 0]
    ELSE [ops |-> <<>>, ret |-> IF how = "error" THEN -1 ELSE 0]

\* send_listener is entered with the mutex of m held: a sync round, a failed
\* connection, the migration to the worker of the source client, or sends
send_listener_locks(m, how, f, then, process) ==
    IF how \in {"handoff", "sync wait"}
    THEN listener_waiting_on_source_locks(m, how, f, then, process)
    ELSE IF how = "error" THEN [ops |-> <<>>, ret |-> -1]
    ELSE change_worker_locks(m, how)
SendEnds == {"handoff", "sync wait", "error"} \cup Migrations

\* a send_to_listener that unlocks after a migration as well
send_to_listener_unlocks_moved(m, how, f, then, process) ==
    <<thread_mutex_lock(m)>> \o send_listener_locks(m, how, f, then, process).ops
        \o <<thread_mutex_unlock(m)>>

\* send_to_listener: "client moved, and source unlocked" when send_listener
\* returns 1; a negative return has source_listener_release called first
send_to_listener_locks(m, how, f, then, process) ==
    LET s == send_listener_locks(m, how, f, then, process) IN
    <<thread_mutex_lock(m)>> \o s.ops
        \o (IF s.ret = 1 THEN <<>> ELSE <<thread_mutex_unlock(m)>>)

\* the worker pool is resized (outside this file): workers_lock is taken for
\* writing and no source is touched
workers_adjust_locks == <<workers_wlock_op, workers_unlock_op>>

\* the paths through startup, admission, override, handoff and free
LockPaths ==
    {source_startup_locks(m, how, f, found) :
        m \in Mounts, how \in StartupEnds, f \in {NoMount, "b"}, found \in BOOLEAN}
    \cup {source_client_http_send_locks(m, init, f, found) :
        m \in Mounts, init \in BOOLEAN, f \in {NoMount, "b"}, found \in BOOLEAN}
    \cup {source_client_read_locks(m, how) : m \in Mounts, how \in ReadEnds}
    \cup {source_client_shutdown_locks(m) : m \in Mounts}
    \cup {source_client_release_locks(m) : m \in Mounts}
    \cup {source_recheck_mounts_locks}
    \cup {source_add_listener_locks("a", how, f, then, process) :
        how \in PassEnds, f \in {NoMount, "b"}, then \in PassEnds \ {"full"},
        process \in BOOLEAN}
    \cup {send_to_listener_locks("a", how, "b", then, process) :
        how \in SendEnds, then \in PassEnds \ {"full"}, process \in BOOLEAN}
    \cup {workers_adjust_locks}

Idle == [path |-> <<>>, pc |-> 1]

LockInit ==
    /\ src = [m \in Mounts |-> NoSource]
    /\ buf = [r \in AllBufs |-> FreeBuf]
    /\ lis = [l \in Listeners |-> NoListener]
    /\ bc = [b \in Broadcasters |-> NoBroadcaster]
    /\ glob = [sources |-> 0, slow |-> [m \in Mounts |-> 0],
               aborted |-> FALSE, uaf |-> FALSE,
               writer |-> NULL, readers |-> {},
               pool_writer |-> NULL, pool_readers |-> {},
               mutex |-> [m \in Mounts |-> NULL],
               thr |-> [t \in Threads |-> Idle]]
    /\ config = [queue |-> CHOOSE q \in QueueConfigs : q.min_queue_size = 0,
                 mount |-> MountSettings, source_limit |-> SourceLimit]

\* the call thread t makes next, if it is in a path
NextOp(t) ==
    IF glob.thr[t].pc \in DOMAIN glob.thr[t].path
    THEN glob.thr[t].path[glob.thr[t].pc]
    ELSE [op |-> "return", m |-> NoMount]

Advance(t) == [glob EXCEPT !.thr[t].pc = @ + 1]

\* a handler starts on thread t
Enter(t, path) ==
    /\ glob.thr[t] = Idle
    /\ glob' = [glob EXCEPT !.thr[t].path = path]
    /\ UNCHANGED <<src, buf, lis, bc, config>>

Return(t) ==
    /\ glob.thr[t].path # <<>>
    /\ NextOp(t).op = "return"
    /\ glob' = [glob EXCEPT !.thr[t] = Idle]
    /\ UNCHANGED <<src, buf, lis, bc, config>>

avl_tree_rlock(t) ==
    /\ NextOp(t).op = "rlock"
    /\ glob.writer = NULL
    /\ glob' = [Advance(t) EXCEPT !.readers = @ \cup {t}]
    /\ UNCHANGED <<src, buf, lis, bc, config>>

TreeWLock(t) ==
    /\ NextOp(t).op = "wlock"
    /\ glob.writer = NULL /\ glob.readers = {}
    /\ glob' = [Advance(t) EXCEPT !.writer = t]
    /\ UNCHANGED <<src, buf, lis, bc, config>>

TreeUnlock(t) ==
    /\ NextOp(t).op = "tunlock"
    /\ glob' = [Advance(t) EXCEPT !.writer = IF @ = t THEN NULL ELSE @,
                                  !.readers = @ \ {t}]
    /\ UNCHANGED <<src, buf, lis, bc, config>>

MutexLock(t) ==
    /\ NextOp(t).op = "lock"
    /\ glob.mutex[NextOp(t).m] = NULL
    /\ glob' = [Advance(t) EXCEPT !.mutex[NextOp(t).m] = t]
    /\ UNCHANGED <<src, buf, lis, bc, config>>

MutexUnlock(t) ==
    /\ NextOp(t).op = "unlock"
    /\ glob' = [Advance(t) EXCEPT !.mutex[NextOp(t).m] = NULL]
    /\ UNCHANGED <<src, buf, lis, bc, config>>

thread_rwlock_rlock(t) ==
    /\ NextOp(t).op = "prlock"
    /\ glob.pool_writer = NULL
    /\ glob' = [Advance(t) EXCEPT !.pool_readers = @ \cup {t}]
    /\ UNCHANGED <<src, buf, lis, bc, config>>

thread_rwlock_wlock(t) ==
    /\ NextOp(t).op = "pwlock"
    /\ glob.pool_writer = NULL /\ glob.pool_readers = {}
    /\ glob' = [Advance(t) EXCEPT !.pool_writer = t]
    /\ UNCHANGED <<src, buf, lis, bc, config>>

thread_rwlock_unlock(t) ==
    /\ NextOp(t).op = "punlock"
    /\ glob' = [Advance(t) EXCEPT !.pool_writer = IF @ = t THEN NULL ELSE @,
                                  !.pool_readers = @ \ {t}]
    /\ UNCHANGED <<src, buf, lis, bc, config>>

LockNext ==
    \/ \E t \in Threads, path \in LockPaths : Enter(t, path)
    \/ \E t \in Threads : Return(t)
    \/ \E t \in Threads : avl_tree_rlock(t)
    \/ \E t \in Threads : TreeWLock(t)
    \/ \E t \in Threads : TreeUnlock(t)
    \/ \E t \in Threads : MutexLock(t)
    \/ \E t \in Threads : MutexUnlock(t)
    \/ \E t \in Threads : thread_rwlock_rlock(t)
    \/ \E t \in Threads : thread_rwlock_wlock(t)
    \/ \E t \in Threads : thread_rwlock_unlock(t)

SpecLocks == LockInit /\ [][LockNext]_vars

\* ---------------------------------------------------------------- override
\* source client 1 on mount b and source client 2 on mount a, each with a
\* stream of either format type; mount a falls back to b and overrides it
\* when it starts; the listeners ask for mount a
OverrideNext ==
    \/ \E type \in FormatTypes : source_startup(1, "b", FALSE, type, TRUE)
    \/ \E type \in FormatTypes : source_startup(2, "a", FALSE, type, TRUE)
    \/ \E b \in FallbackClients : source_client_http_send(b, FALSE)
    \/ \E b \in FallbackClients : source_client_read(b, "idle", <<>>)
    \/ \E b \in FallbackClients : source_client_read(b, "fail", <<>>)
    \/ \E b \in FallbackClients : source_client_shutdown(b)
    \/ \E b \in FallbackClients : TimerExpire(b)
    \/ \E l \in Listeners : source_add_listener(l, "a")
    \/ \E l \in Listeners : ListenerStep(l)

SpecOverride == LifeInit /\ [][OverrideNext]_vars

\* ------------------------------------------------------- fallback cycles
\* every way the two mounts can name a fallback (the other mount, the mount
\* itself or none), used when the source is unavailable and, with
\* fallback_when_full, when the mount is full; a limit of no listeners at all
\* makes every source full
CycleChoices ==
    {[NoMountInfo EXCEPT !.present = TRUE, !.fallback_mount = f,
                         !.fallback_when_full = w, !.max_listeners = n] :
        f \in Mounts \cup {NoMount}, w \in BOOLEAN, n \in {-1, 0}}

CycleInit ==
    /\ src = [m \in Mounts |-> NoSource]
    /\ buf = [r \in AllBufs |-> FreeBuf]
    /\ lis = [l \in Listeners |-> NoListener]
    /\ bc = [b \in Broadcasters |-> NoBroadcaster]
    /\ glob = [sources |-> 0, slow |-> [m \in Mounts |-> 0],
               aborted |-> FALSE, uaf |-> FALSE]
    /\ config \in {[queue |-> q, mount |-> ms, source_limit |-> SourceLimit] :
                     q \in {x \in QueueConfigs : x.min_queue_size = 0},
                     ms \in [Mounts -> CycleChoices]}

\* source client 1 on mount b, source client 2 on mount a; listener 1 asks
\* for either mount
CycleNext ==
    \/ source_startup(1, "b", FALSE, "mp3", TRUE)
    \/ source_startup(2, "a", FALSE, "mp3", TRUE)
    \/ \E b \in FallbackClients : source_client_http_send(b, FALSE)
    \/ \E b \in FallbackClients : source_client_read(b, "fail", <<>>)
    \/ \E b \in FallbackClients : source_client_shutdown(b)
    \/ \E m \in Mounts : source_add_listener(1, m)
    \/ SendListener(1)
    \/ ListenerSyncBegin(1)
    \/ ListenerSyncEnd(1)
    \/ ListenerUseAfterFree(1)

SpecCycle == CycleInit /\ [][CycleNext]_vars

\* ------------------------------------------------------------------ claims
\* the blocks linked from the head of the queue of mount m
QueueOf(m) == ChainOf(buf, src[m].stream_data)
\* the blocks linked from min_queue_point
BurstOf(m) == ChainOf(buf, src[m].min_queue_point)
Last(s) == s[Len(s)]
Started == {m \in Mounts : src[m].inTree}

\* C1: in every reachable state queue_size is the sum of the lengths of the
\* blocks linked from stream_data through stream_data_tail
C1_QueueSizeIsSum ==
    \A m \in Started :
        /\ src[m].queue_size = SumLen(buf, QueueOf(m))
        /\ QueueOf(m) # <<>> => Last(QueueOf(m)) = src[m].stream_data_tail

\* a trim has taken a block off a queue that goes on with data
C1_Witness ==
    \E m \in Started, r \in Blocks :
        /\ buf[r].rel /\ buf[r].count > 0
        /\ src[m].stream_data # NULL
        /\ src[m].queue_size = QueueSlack

\* C2: with a non-empty queue min_queue_point is reachable from stream_data and
\* stream_data_tail is reachable from min_queue_point
C2_MinQueuePointLinked ==
    \A m \in Started :
        src[m].stream_data # NULL =>
            /\ src[m].min_queue_point \in Range(QueueOf(m))
            /\ src[m].stream_data_tail \in Range(BurstOf(m))

\* C3: min_queue_offset is the sum of the lengths of the blocks from
\* min_queue_point through stream_data_tail
C3_MinQueueOffsetIsSum ==
    \A m \in Started :
        src[m].stream_data # NULL =>
            src[m].min_queue_offset = SumLen(buf, BurstOf(m))

\* C3 holds wherever min_queue_point is still linked (C2)
C3_HoldsWhereLinked ==
    \A m \in Started :
        (src[m].stream_data # NULL
           /\ src[m].min_queue_point \in Range(QueueOf(m))
           /\ src[m].stream_data_tail \in Range(BurstOf(m)))
        => src[m].min_queue_offset = SumLen(buf, BurstOf(m))

\* listener l is in the listener set of the source it points to
Attached(l) ==
    /\ lis[l].shared_data \in Mounts
    /\ l \in src[lis[l].shared_data].clients

\* C4: no queue block is destroyed while a listener's refbuf points to it:
\* the block a listener points to is allocated and counts every such listener
C4_NoBlockFreedWhileHeld ==
    \A r \in Blocks :
        LET holders == {l \in Listeners : lis[l].refbuf = r} IN
        holders # {} => buf[r].count >= Cardinality(holders)

\* the queue of a source was flushed by source_clear_source while a listener
\* held one of its blocks
C4_Witness ==
    \E l \in Listeners :
        /\ lis[l].shared_data = Freed
        /\ lis[l].refbuf \in Blocks
        /\ buf[lis[l].refbuf].qb

\* C5 as stated: the refbuf of an attached listener is nil, or reachable from
\* the head of the queue, or a private copy (HAS_INTRO_CONTENT)
C5_RefbufNilQueueOrCopy ==
    \A l \in Listeners :
        Attached(l) =>
            \/ lis[l].refbuf = NULL
            \/ lis[l].refbuf \in Range(QueueOf(lis[l].shared_data))
            \/ lis[l].intro

\* C5 amended: ... or the listener's own refbuf with the response headers, or
\* a block the trim has unlinked and flagged for release
C5_RefbufNilQueueCopyHeadersOrMarked ==
    \A l \in Listeners :
        Attached(l) =>
            \/ lis[l].refbuf = NULL
            \/ lis[l].refbuf \in Range(QueueOf(lis[l].shared_data))
            \/ lis[l].intro
            \/ lis[l].refbuf = PrivOf(l) /\ lis[l].check_buffer = "http_source_listener"
            \/ lis[l].refbuf \in Blocks /\ buf[lis[l].refbuf].rel

\* an attached listener holds a block that the trim has unlinked
C5_Witness ==
    \E l \in Listeners :
        /\ Attached(l)
        /\ lis[l].refbuf \in Blocks
        /\ buf[lis[l].refbuf].rel
        /\ lis[l].refbuf \notin Range(QueueOf(lis[l].shared_data))

\* position of x in the sequence s (0 when it is not there)
IndexOf(s, x) == IF x \in Range(s) THEN CHOOSE i \in DOMAIN s : s[i] = x ELSE 0

\* C6: a listener on the queue moves along the next links only, and the bytes
\* it has sent are all the bytes between its old and its new position
C6_ContiguousRun ==
    [][\A l \in Listeners :
          (/\ lis[l].check_buffer = "source_queue_advance"
           /\ lis'[l].check_buffer = "source_queue_advance"
           /\ lis[l].refbuf \in Blocks
           /\ lis'[l].refbuf \in Blocks
           /\ lis'[l].shared_data = lis[l].shared_data
           /\ lis'[l] # lis[l]
           /\ lis'[l].error = lis[l].error)
          => LET path == ChainOf(buf, lis[l].refbuf)
                 i == IndexOf(path, lis'[l].refbuf)
             IN  /\ i > 0
                 /\ lis'[l].sent_bytes < SentCap =>
                       lis'[l].sent_bytes - lis[l].sent_bytes
                         = SumLen(buf, SubSeq(path, 1, i - 1)) - lis[l].pos + lis'[l].pos
      ]_vars

\* a listener is part way through a block after it has sent an earlier one
C6_Witness ==
    \E l \in Listeners :
        /\ lis[l].check_buffer = "source_queue_advance"
        /\ lis[l].refbuf \in Blocks
        /\ lis[l].pos > 0
        /\ lis[l].sent_bytes > lis[l].pos
        /\ lis[l].sent_bytes < SentCap

\* listener l is due for a send pass with its refbuf unlinked by the trim
SlowCase(l) ==
    /\ lis[l].ops = "client"
    /\ Attached(l)
    /\ lis[l].refbuf \in Blocks
    /\ buf[lis[l].refbuf].rel

\* the step is a call of the process function of listener l (the failure of
\* its connection is not)
PassBy(l) ==
    /\ lis'[l] # lis[l]
    /\ lis'[l] # [lis[l] EXCEPT !.error = TRUE]

Dropped(l, m) ==
    /\ lis'[l].ops = "gone"
    /\ l \notin src'[m].clients

\* the send loop of the pass stays on the refbuf the listener holds
StaysOnRefbuf(l) ==
    \A o \in SendLoopOutcomes(src[lis[l].shared_data], {[c |-> lis[l], b |-> buf]}, SendLoop) :
        /\ o.c.refbuf = lis[l].refbuf
        /\ o.c.sent_bytes < SentCap =>
              o.c.sent_bytes - lis[l].sent_bytes = o.c.pos - lis[l].pos

StoppedWith(l) ==
    /\ src["a"].inTree
    /\ ~source_running(src["a"])
    /\ src["a"].flags \cap {TERMINATING, LISTENERS_SYNC} = {}
    /\ l \in src["a"].clients
    /\ lis[l].ops = "client"
    /\ ~lis[l].error
    /\ config_find_mount("a").fallback_mount = "b"
    /\ src["b"].inTree
    /\ source_available(src["b"])
    /\ src["b"].ftype = src["a"].ftype

\* C8: when a running source with an available fallback stops, every listener
\* attached to it becomes attached to the fallback, and the source is removed
\* from the registry and freed
C8_FallbackOnSourceDeath ==
    \A l \in Listeners :
        /\ StoppedWith(l) ~> (l \in src["b"].clients /\ lis[l].shared_data = "b")
        /\ StoppedWith(l) ~> ~src["a"].inTree

\* C9: a source is removed from the registry and freed only when its listener
\* count is 0 and its listener set is empty
C9_FreedWithoutListeners ==
    [][\A m \in Mounts :
          (src[m].inTree /\ ~src'[m].inTree)
          => (src[m].listeners = 0 /\ src[m].clients = {})
      ]_vars

\* source client b has just had its request for a mount handled as hijacker
HijackerConnects(b) ==
    /\ bc[b].ops = "none"
    /\ bc'[b].ops # "none"
    /\ bc'[b].hijacker

\* the frame of the swap: the source stays in the registry with its queue,
\* flags and listener set, only its client changes; the old source client is
\* detached; nothing else changes
Swapped(b, m) ==
    /\ bc'[b].respcode = 200
    /\ bc'[b].ops = "http"
    /\ bc'[b].shared_data = m
    /\ src' = [src EXCEPT ![m].client = b]
    /\ src[m].client # NULL => bc'[src[m].client].shared_data = NoMount
    /\ \A o \in Broadcasters \ {b, src[m].client} : bc'[o] = bc[o]
    /\ UNCHANGED <<buf, lis, glob, config>>

\* the old source client exits on its next call, the new one reads on
OldExitsNewContinues(b) ==
    /\ (bc[b].ops = "read" /\ bc[b].shared_data = NoMount /\ bc'[b] # bc[b])
       => (bc'[b].ops = "gone" /\ UNCHANGED <<src, buf, lis>>)
    /\ (bc[b].ops = "http" /\ bc[b].hijacker /\ bc[b].shared_data \in Mounts
          /\ bc'[b].ops = "read"
          /\ src[bc[b].shared_data].client = b
          /\ source_running(src[bc[b].shared_data]))
       => UNCHANGED <<src, buf, lis>>

C11_ReserveExclusive ==
    /\ [](\A m \in Mounts : glob.dup[m] = 0)
    /\ [][\A b \in Reservers :
            LET m == glob.call[b].mount IN
            (glob.call[b].pc = "find" /\ glob'.call[b].pc # "find" /\ src[m].inTree)
            => /\ src' = src
               /\ glob'.call[b].pc = "unlock"
               /\ glob'.call[b].src =
                     IF glob.call[b].ret_exist /\ LISTENERS_SYNC \notin src[m].flags
                     THEN m ELSE NoMount
         ]_vars

\* two calls for one mount are over: one has created the source, the other,
\* not a hijacker, got nil; and a hijacker was refused a source in LISTENERS_SYNC
C11_Witness ==
    \E b \in Reservers, c \in Reservers :
        /\ glob.call[b].pc = "done" /\ glob.call[c].pc = "done"
        /\ glob.call[b].mount = "a" /\ glob.call[b].created
        /\ glob.call[c].mount = "b" /\ glob.call[c].ret_exist
        /\ ~glob.call[c].created /\ glob.call[c].src = NoMount
        /\ LISTENERS_SYNC \in src["b"].flags

\* C12: source_find_mount returns nil or an available source; it examines at
\* most MAX_FALLBACK_DEPTH mounts; it returns nil when no source is available
\* (cyclic fallbacks included) and when an unavailable mount has no settings
C12_FindMountAvailableOrNil ==
    \A m \in Mounts :
        LET w == FindMountWalk(src, m, 0) IN
        /\ source_find_mount(m) = w.source
        /\ w.source # NoMount
              => (src[w.source].inTree /\ source_available(src[w.source]))
        /\ w.looked <= MAX_FALLBACK_DEPTH
        /\ (\A x \in Mounts : ~(src[x].inTree /\ source_available(src[x])))
              => w.source = NoMount
        /\ (~config_find_mount(m).present
              /\ ~(src[m].inTree /\ source_available(src[m])))
              => w.source = NoMount

\* the fallbacks are cyclic, a source is in the tree but in LISTENERS_SYNC, no
\* source is available, and the lookup has examined ten mounts
C12_Witness ==
    /\ config.mount["a"].fallback_mount = "b"
    /\ config.mount["b"].fallback_mount = "a"
    /\ src["a"].inTree /\ LISTENERS_SYNC \in src["a"].flags
    /\ src["b"].inTree /\ ~source_running(src["b"])
    /\ FindMountWalk(src, "a", 0).looked = MAX_FALLBACK_DEPTH
    /\ source_find_mount("a") = NoMount

\* the step in which source_add_listener handles listener l
Admitting(l) == lis[l].ops = "none" /\ lis'[l].ops # "none"
\* the source of mount m has as many listeners as mount a allows
FullSource(m) ==
    /\ source_find_mount_raw(m) # NoMount /\ source_available(src[m])
    /\ config.mount["a"].max_listeners # -1
    /\ src[m].listeners >= config.mount["a"].max_listeners
AvailableSource(m) == source_find_mount_raw(m) # NoMount /\ source_available(src[m])

\* C13: when the source of the mount asked for is full and the mount sets
\* fallback_when_full with a fallback mount whose source is available,
\* source_add_listener attaches the listener to the source of the fallback
\* mount (no auth is set on the mount)
C13_FullGoesToFallback ==
    [][\A l \in Listeners :
          (/\ Admitting(l)
           /\ FullSource("a") /\ AvailableSource("b")
           /\ config.mount["a"].fallback_when_full
           /\ ~config.mount["a"].auth)
          => /\ lis'[l].shared_data = "b"
             /\ l \in src'["b"].clients]_vars

\* mount a allows no listener and sends them to mount b; both sources are
\* available, b has no listener, and the listener has been turned away
C13_Witness ==
    /\ config.mount["a"].max_listeners = 0
    /\ config.mount["a"].fallback_when_full /\ ~config.mount["a"].auth
    /\ AvailableSource("a") /\ AvailableSource("b")
    /\ src["b"].listeners = 0
    /\ \E l \in Listeners : lis[l].ops = "gone"

\* C14: with max_listeners = N >= 0 on the mount every listener asks for, and
\* no listener handed over to it from another source, the source of the
\* mount never has more than N listeners, however the calls of
\* source_add_listener interleave with each other and with the other handlers
C14_ListenersWithinLimit ==
    LET N == config.mount["a"].max_listeners IN
    (N >= 0 /\ src["a"].inTree)
    => /\ src["a"].listeners <= N
       /\ Cardinality(src["a"].clients) <= N

\* the source of mount a has its one listener and has turned another away
C14_Witness ==
    /\ config.mount["a"].max_listeners = 1
    /\ ~config.mount["a"].fallback_when_full /\ ~config.mount["a"].auth
    /\ AvailableSource("a") /\ src["a"].listeners = 1
    /\ \E l, k \in Listeners :
          /\ lis[l].ops = "gone"
          /\ lis[k].shared_data = "a" /\ k \in src["a"].clients

\* the auth of mount a refuses a second login and drops the first
DropExisting ==
    /\ config.mount["a"].auth
    /\ ~config.mount["a"].allow_duplicate_users
    /\ config.mount["a"].drop_existing_listener
\* listener e is attached to the source of mount a under a username
LoggedIn(e) ==
    /\ AvailableSource("a") /\ e \in src["a"].clients
    /\ lis[e].username # NoUser

\* C15: with allow_duplicate_users off and drop_existing_listener on, when
\* source_add_listener handles a listener with the username of a listener
\* attached to the source, the earlier listener gets connection.error set
\* and the new listener is attached to a source
C15_DropExistingAdmitsNew ==
    [][\A l, e \in Listeners :
          (/\ DropExisting /\ Admitting(l) /\ LoggedIn(e)
           /\ lis'[l].username = lis[e].username)
          => /\ lis'[e].error
             /\ lis'[l].ops # "gone"
             /\ l \in src'[lis'[l].shared_data].clients]_vars

\* the earlier listener has been told to go while it was the one listener
\* the mount allows, and the new listener of the same user has been refused
C15_Witness ==
    /\ DropExisting /\ config.mount["a"].max_listeners = 1
    /\ \E l, e \in Listeners :
          /\ LoggedIn(e) /\ lis[e].error
          /\ lis[l].ops = "gone" /\ lis[l].username = lis[e].username

\* a step of the process function of listener l that does something
ListenerProcess(l) == lis'[l] # lis[l] /\ bc' = bc
\* the listener has been detached from its source and released
Terminated(l) ==
    /\ lis'[l].ops = "gone"
    /\ l \notin src'[lis[l].shared_data].clients
\* a call of the process function of the source client b in its read state
BroadcasterProcess(b) == \E bs \in CancelData(buf) : source_client_read(b, "data", bs)

\* C16 as stated: once connection.error is set on a listener in the CLIENT,
\* PAUSE or WAIT state or on the broadcaster, the next call of its process
\* function terminates it: it is detached from its source and released
C16_ErrorTerminatesNextCall ==
    [][/\ \A l \in Listeners :
            (lis[l].error /\ lis[l].ops \in {"client", "pause", "wait"}
             /\ ListenerProcess(l))
            => Terminated(l)
       /\ \A b \in {1} :
            (bc[b].error /\ bc[b].ops = "read" /\ BroadcasterProcess(b))
            => bc'[b].ops = "gone"]_vars

\* C16, amended: with connection.error set, the next call terminates a
\* listener in the CLIENT state; a listener in the PAUSE or WAIT state is
\* handed back to the CLIENT state by that call and is not released in it.
\* The call of the broadcaster does not release it either, unless it was
\* hijacked: a read that brings no buffer clears RUNNING, and the client
\* goes on in its read state
C16_ErrorTerminatesSendingListener ==
    [][/\ \A l \in Listeners :
            (lis[l].error /\ ListenerProcess(l))
            => /\ lis[l].ops = "client" => Terminated(l)
               /\ lis[l].ops \in {"pause", "wait"}
                  => lis'[l] = [lis[l] EXCEPT !.ops = "client"]
       /\ \A b \in {1} :
            (bc[b].error /\ bc[b].ops = "read" /\ BroadcasterProcess(b))
            => IF bc[b].shared_data = NoMount THEN bc'[b].ops = "gone"
               ELSE /\ bc'[b].ops \in {"read", "halt"}
                    /\ (bc[b].shared_data \in Mounts
                        /\ source_running(src[bc[b].shared_data])
                        /\ LISTENERS_SYNC \notin src[bc[b].shared_data].flags
                        /\ source_client_read(b, "data", <<>>))
                       => /\ bc'[b].ops = "read"
                          /\ ~source_running(src'[bc[b].shared_data])]_vars

\* the connection of a listener failed while it waited for the other
\* listeners, the source no longer holds it and the listener is still
\* attached; and the same for a listener held over a restart
C16_Witness ==
    \E l \in Listeners :
        /\ lis[l].error /\ lis[l].ops = "wait"
        /\ lis[l].shared_data \in Mounts
        /\ l \in src[lis[l].shared_data].clients
        /\ src[lis[l].shared_data].flags \cap {TERMINATING, LISTENERS_SYNC}
              # {LISTENERS_SYNC}

C16_PausedWithError ==
    \E l \in Listeners : lis[l].error /\ lis[l].ops = "pause"

\* the sources that are in a sync round
InSync == {m \in Mounts : src[m].inTree /\ LISTENERS_SYNC \in src[m].flags}

ReadCall(b) == source_client_read(b, "idle", <<>>) \/ source_client_read(b, "fail", <<>>)
\* the sync round of the source of source client b has lasted more than
\* 1500 ms and listeners are still to be processed
SyncTooLong(b) ==
    /\ bc[b].ops = "read" /\ bc[b].expired
    /\ bc[b].shared_data \in Mounts
    /\ LISTENERS_SYNC \in src[bc[b].shared_data].flags
    /\ src[bc[b].shared_data].termination_count # 0

SentValues == {0, Half, QueueSlack, SentCap}
NewListener(sent) == [NoListener EXCEPT !.sent_bytes = sent]
\* the starts locate_start_on_queue finds on the queue of mount m
Starts(m) ==
    {[refbuf |-> StartRefbuf(src[m], NewListener(sent), buf),
      lag |-> StartLag(src[m], NewListener(sent), buf)] :
        sent \in {x \in SentValues : StartRefbuf(src[m], NewListener(x), buf) # NULL}}

\* the listeners locate_start_on_queue turns away although the queue has data
NoStart(m) ==
    {sent \in SentValues :
        /\ src[m].stream_data_tail # NULL
        /\ StartRefbuf(src[m], NewListener(sent), buf) = NULL}
SyncBlocksFrom(r) == {x \in Range(ChainOf(buf, r)) : buf[x].sync}

\* C19 as stated: a listener that locate_start_on_queue puts on the queue
\* starts at a block that carries the sync flag, with queue_pos the
\* queue_pos of the source minus a lag with 0 <= lag <= min_queue_size
C19_StartLagWithinMinQueueSize ==
    \A m \in Started : \A st \in Starts(m) :
        /\ buf[st.refbuf].sync
        /\ 0 <= st.lag /\ st.lag <= src[m].min_queue_size

\* C19, amended: the start block carries the sync flag and the lag is
\* between 0 and min_queue_offset; when no block from the chosen point on
\* carries the sync flag the listener is left as it was, with -1 for a retry
C19_StartLagWithinMinQueueOffset ==
    \A m \in Started :
        /\ \A st \in Starts(m) :
              /\ buf[st.refbuf].sync
              /\ 0 <= st.lag /\ st.lag <= src[m].min_queue_offset
        /\ \A sent \in SentValues :
              LET c == NewListener(sent)
                  r == locate_start_on_queue(src[m], c, buf)
              IN  src[m].stream_data_tail # NULL
                  => IF SyncBlocksFrom(StartFrom(src[m], c, buf)) = {}
                     THEN r.ret = -1 /\ r.c = c /\ r.b = buf
                     ELSE r.ret = 0 /\ r.c.refbuf \in SyncBlocksFrom(StartFrom(src[m], c, buf))

\* a listener is on the queue at the sync point a new listener would start
\* at, which is not the burst point, and another new listener, which was
\* sent more already, finds no sync point
C19_Witness ==
    \E m \in Started, l \in Listeners :
        /\ lis[l].check_buffer = "source_queue_advance"
        /\ \E st \in Starts(m) :
              /\ lis[l].refbuf = st.refbuf
              /\ st.refbuf # src[m].min_queue_point
              /\ st.lag > src[m].min_queue_size
        /\ NoStart(m) # {}

\* the sources that source_shutdown has been called for
Terminating == {m \in Mounts : src[m].inTree /\ TERMINATING \in src[m].flags}
\* listeners of the source of mount m are still to be processed in the round
MidRound(m) ==
    /\ src[m].termination_count # 0
    /\ src[m].termination_count <= src[m].listeners

\* C20 as stated: source_shutdown called for a source that is TERMINATING
\* leaves flags, termination_count and the fallback record as they were
C20_ShutdownIdempotent ==
    \A m \in Terminating : source_shutdown(src[m], m) = src[m]

\* C20, amended: source_client_read does not call source_shutdown for a
\* source that is TERMINATING: while listeners are still to be processed its
\* call leaves termination_count, the timer, the fallback record and the
\* flags as they were, but for TERMINATING after 1500 ms.  source_shutdown
\* itself has no test: called for a TERMINATING source it sets
\* termination_count to the number of listeners again
C20_NoShutdownWhileTerminating ==
    /\ [][\A b \in FallbackClients :
             LET m == bc[b].shared_data IN
             (/\ bc[b].ops = "read" /\ m \in Terminating
              /\ ~source_running(src[m]) /\ MidRound(m)
              /\ ReadCall(b))
             => /\ bc' = bc
                /\ src' = [src EXCEPT ![m].flags =
                              IF bc[b].expired THEN @ \ {TERMINATING} ELSE @]]_vars
    /\ [](\A m \in Terminating :
             LET s == source_shutdown(src[m], m) IN
             /\ s.termination_count = src[m].listeners
             /\ {TERMINATING, LISTENERS_SYNC} \subseteq s.flags)

\* a terminating source half way through its round after 1500 ms: one
\* listener has left, the other is still to be processed
C20_Witness ==
    \E m \in Terminating :
        /\ ~source_running(src[m]) /\ MidRound(m)
        /\ src[m].listeners = 1
        /\ \E l \in Listeners : lis[l].ops = "gone"
        /\ bc[src[m].client].ops = "read" /\ bc[src[m].client].expired

\* a call of source_read by source client b that took stream data and ran
\* the trim loop
DataRead(b) ==
    /\ bc[b].ops = "read" /\ bc[b].shared_data \in Mounts
    /\ source_running(src[bc[b].shared_data])
    /\ ~(LISTENERS_SYNC \in src[bc[b].shared_data].flags
            /\ src[bc[b].shared_data].termination_count # 0)
    /\ \E bs \in TrimData(buf) \cup StreamData(buf) \cup LifeData(buf) :
           source_client_read(b, "data", bs)

\* C21: after the trim loop of source_read, queue_size is within
\* queue_size_limit or the queue is the one block stream_data_tail points to,
\* and the trim never unlinks the tail block
C21_TrimKeepsTail ==
    [][DataRead(1) /\ ~glob'.aborted =>
         LET s == src'[bc[1].shared_data]
             q == ChainOf(buf', s.stream_data)
         IN  /\ s.queue_size <= s.queue_size_limit \/ q = <<s.stream_data_tail>>
             /\ s.stream_data_tail # NULL => s.stream_data_tail \in Range(q)]_vars

\* the first half of C21 alone: the queue is within the limit or the one tail block
C21_TrimWithinLimit ==
    [][DataRead(1) /\ ~glob'.aborted =>
         LET s == src'[bc[1].shared_data]
             q == ChainOf(buf', s.stream_data)
         IN  s.queue_size <= s.queue_size_limit \/ q = <<s.stream_data_tail>>]_vars

\* a block longer than queue_size_limit was read and the queue is empty
\* while stream_data_tail still points to it
C21_Witness ==
    /\ src["a"].inTree /\ src["a"].stream_data = NULL
    /\ src["a"].stream_data_tail # NULL
    /\ buf[src["a"].stream_data_tail].len > src["a"].queue_size_limit
    /\ buf[src["a"].stream_data_tail].rel

\* a call of source_read by source client b that appended the blocks bs
Appended(b, bs) ==
    /\ DataRead(b) /\ bs # <<>>
    /\ source_client_read(b, "data", bs)
    /\ ~glob'.aborted

\* min_queue_offset is within min_queue_size plus the length of the tail
OffsetWithinBurst(s, B) ==
    s.min_queue_offset <= s.min_queue_size + B[s.stream_data_tail].len

\* C22: after each append of a block in source_read, the advance of
\* min_queue_point included, min_queue_offset <= min_queue_size + the length
\* of the tail block: for the first block of a call and for the last
C22_OffsetWithinBurstAfterAppend ==
    [][\A bs \in StreamData(buf) : Appended(1, bs) =>
         LET m == bc[1].shared_data
             first == AppendAll(src[m], buf, <<bs[1]>>, FreeSlots(buf))
         IN  /\ ~first.abort /\ OffsetWithinBurst(first.s, first.b)
             /\ OffsetWithinBurst(src'[m], buf')]_vars

\* appends have moved min_queue_point off the head of the queue, and the
\* burst is longer than min_queue_size less a block
C22_Witness ==
    /\ src["a"].inTree /\ src["a"].min_queue_point # NULL
    /\ src["a"].min_queue_point # src["a"].stream_data
    /\ src["a"].min_queue_point \in Range(QueueOf("a"))
    /\ src["a"].min_queue_point # src["a"].stream_data_tail
    /\ src["a"].min_queue_offset = src["a"].min_queue_size

\* C23: whenever stream_data_tail of a source is not NULL, the reference
\* count of the block it points to is at least 2
C23_TailCountAtLeastTwo ==
    \A m \in Started :
        src[m].stream_data_tail # NULL => buf[src[m].stream_data_tail].count >= 2

\* the tail is a block behind the head that no listener holds: its count is
\* the reference of the queue, the one kept for the tail and the one for the
\* burst
C23_Witness ==
    /\ src["a"].inTree /\ src["a"].stream_data_tail # NULL
    /\ src["a"].stream_data_tail # src["a"].stream_data
    /\ buf[src["a"].stream_data_tail].count = 3
    /\ \A l \in Listeners : lis[l].refbuf # src["a"].stream_data_tail

\* C24: a fault in the bookkeeping of the queue that source_read detects
\* only clears RUNNING; the abort() of the "weird state of min_queue point"
\* branch is never reached
C24_NeverAborts == ~glob.aborted

\* the state that source_read takes for a fault: min_queue_point is off the
\* queue and min_queue_offset is beyond min_queue_size
C24_Witness ==
    /\ src["a"].inTree /\ source_running(src["a"])
    /\ src["a"].min_queue_point # NULL
    /\ src["a"].min_queue_point \notin Range(QueueOf("a"))
    /\ src["a"].stream_data_tail # NULL
    /\ src["a"].min_queue_offset > src["a"].min_queue_size

\* the source mutexes thread t holds
MutexesOf(t) == {m \in Mounts : glob.mutex[m] = t}

\* C25: no thread asks for the lock of the mount registry (read or write)
\* while it holds the mutex of a source
C25_RegistryBeforeMutex ==
    \A t \in Threads :
        NextOp(t).op \in {"rlock", "wlock"} => MutexesOf(t) = {}

\* a thread holds the registry lock and a source mutex while the other asks
\* for the registry lock
C25_Witness ==
    \E t, u \in Threads :
        /\ glob.writer = t /\ MutexesOf(t) # {}
        /\ NextOp(u).op = "rlock"

\* the handler running on thread t is a process call of a source client or
\* of a listener
ProcessCall(t) ==
    glob.thr[t].path \in
        {source_client_read_locks(m, how) : m \in Mounts, how \in ReadEnds}
        \cup {send_to_listener_locks("a", how, "b", then, process) :
                how \in SendEnds, then \in PassEnds \ {"full"}, process \in BOOLEAN}

\* C26: every call of source_client_read or send_to_listener gives the
\* source mutex up exactly once for each time it takes it: it unlocks only a
\* mutex it owns, locks none it owns already and owns none when it returns
C26_MutexReleasedOnce ==
    \A t \in Threads :
        ProcessCall(t) =>
            /\ NextOp(t).op = "unlock" => glob.mutex[NextOp(t).m] = t
            /\ NextOp(t).op = "lock" => glob.mutex[NextOp(t).m] # t
            /\ NextOp(t).op = "return" => MutexesOf(t) = {}

\* the call of a client that has moved to another worker returns with the
\* mutex free for the other thread, which takes it
C26_Witness ==
    \E t, u \in Threads :
        /\ glob.thr[t].path \in
               {send_to_listener_locks("a", "moved", "b", "none", FALSE),
                source_client_read_locks("a", "moved")}
        /\ NextOp(t).op = "return"
        /\ glob.mutex["a"] = u /\ u # t

\* source client 2 has sent its response and source_init starts the source
\* of mount a, whose fallback b is to be overridden
OverrideCall ==
    /\ bc[2].ops = "http" /\ bc[2].shared_data = "a" /\ ~bc[2].error
    /\ ~source_running(src["a"])
    /\ source_find_mount("b") = "b"
    /\ source_client_http_send(2, FALSE)

\* C27: source_set_override puts the fallback record on the overridden
\* source and starts LISTENERS_SYNC only when the format type of that source
\* is the type of the new source; when the types differ its flags, fallback
\* record, termination_count and listeners are left as they are
C27_OverrideOnlySameType ==
    [][OverrideCall =>
         /\ (src'["b"].fallback # src["b"].fallback
                \/ LISTENERS_SYNC \in src'["b"].flags \ src["b"].flags)
              => src["b"].ftype = src["a"].ftype
         /\ src["b"].ftype # src["a"].ftype =>
              /\ src'["b"].flags = src["b"].flags
              /\ src'["b"].fallback = src["b"].fallback
              /\ src'["b"].termination_count = src["b"].termination_count
              /\ src'["b"].listeners = src["b"].listeners
              /\ src'["b"].clients = src["b"].clients]_vars

\* the source of a has started with a stream of another type than b's, and
\* b keeps its listeners: no fallback record, no sync round
C27_Witness ==
    /\ source_running(src["a"]) /\ bc[2].ops = "read"
    /\ source_running(src["b"]) /\ src["b"].listeners > 0
    /\ src["a"].listeners = 0
    /\ src["b"].ftype # src["a"].ftype
    /\ src["b"].fallback = NoMount /\ LISTENERS_SYNC \notin src["b"].flags

\* the override of a source of the same type: the fallback record and the round
C27_Overridden ==
    /\ source_running(src["a"]) /\ src["b"].ftype = src["a"].ftype
    /\ src["b"].fallback = "a" /\ LISTENERS_SYNC \in src["b"].flags
    /\ src["b"].termination_count = src["b"].listeners

\* the search of source_add_listener for a client that asks for mount m
SearchFrom(m) ==
    AddListenerTarget(m, config_find_mount(m), config_find_mount(m),
                      MAX_FALLBACK_DEPTH, lis, NoUser)

\* C28: source_add_listener comes to an end for every mount configuration,
\* cycles of fallback and fallback_when_full included: it follows at most 10
\* hops, hops from unavailable sources and from full mounts counted
\* together, and after the 10th it turns the listener away with "Fallback
\* through too many mountpoints"
C28_AtMostTenHops ==
    \A m \in Mounts :
        LET t == SearchFrom(m)
            hops == MAX_FALLBACK_DEPTH - t.loop
        IN  /\ hops \in 0 .. MAX_FALLBACK_DEPTH
            /\ hops = MAX_FALLBACK_DEPTH
                 <=> (t.mount = NoMount
                        /\ t.err = "Fallback through too many mountpoints")

\* mount a is full and sends the listener to itself; listener 1 was turned
\* away after ten hops
C28_Witness ==
    /\ config.mount["a"].fallback_mount = "a"
    /\ config.mount["a"].fallback_when_full
    /\ source_available(src["a"]) /\ src["a"].listeners = 0
    /\ lis[1].ops = "gone"
    /\ SearchFrom("a").loop = 0
    /\ SearchFrom("a").err = "Fallback through too many mountpoints"

\* the fallbacks of the two mounts make a cycle and neither has a source
C28_CycleOfUnavailable ==
    /\ config.mount["a"].fallback_mount = "b"
    /\ config.mount["b"].fallback_mount = "a"
    /\ \A m \in Mounts : ~src[m].inTree
    /\ lis[1].ops = "gone"
    /\ SearchFrom("a").loop = 0

\* the references the block r on the queue of mount m is held by: the queue,
\* the tail pointer, the burst (min_queue_point through the tail) and the
\* listeners whose refbuf it is
Holders(m, r) ==
    1 + (IF r = src[m].stream_data_tail THEN 1 ELSE 0)
      + (IF r \in Range(BurstOf(m)) THEN 1 ELSE 0)
      + Cardinality({l \in Listeners : lis[l].refbuf = r})

\* C29: between the calls of source_read the count of every block on the
\* queue is the number of its holders, and on a source with no listeners
\* source_clear_source brings the count of every queued block to zero
C29_CountIsHolders ==
    \A m \in Started :
        /\ \A r \in Range(QueueOf(m)) : buf[r].count = Holders(m, r)
        /\ (\A l \in Listeners : lis[l].refbuf \notin Range(QueueOf(m)))
             => \A r \in Range(QueueOf(m)) :
                    source_clear_source(src[m], buf).b[r].count = 0

\* a queue of more than one block with min_queue_point behind the head and a
\* listener on one of its blocks
C29_Witness ==
    /\ src["a"].inTree /\ Len(QueueOf("a")) > 1
    /\ src["a"].min_queue_point \in Range(QueueOf("a")) \ {src["a"].stream_data}
    /\ \E l \in Listeners : lis[l].refbuf \in Range(QueueOf("a"))

\* C30: termination_count is never decremented when it is 0 already: no
\* step takes it from 0 to the top of its range
C30_NoDecrementAtZero ==
    [][\A m \in Mounts :
          (src[m].inTree /\ src[m].termination_count = 0)
          => src'[m].termination_count # ULONG_MAX]_vars

\* the only listener of a terminating source has been counted and is
\* paused while the round is still on
C30_Witness ==
    /\ src["a"].inTree
    /\ {TERMINATING, LISTENERS_SYNC, PAUSE_LISTENERS} \subseteq src["a"].flags
    /\ src["a"].termination_count = 0 /\ src["a"].listeners = 1
    /\ lis[1].ops = "pause" /\ lis[1].shared_data = "a"

\* listener l is in the handoff window of listener_waiting_on_source: detached
\* from its source, the source mutex given up, move_listener not yet done
InHandoff(l) == lis[l].ops = "moving" /\ lis[l].shared_data \in Mounts

\* C31: while a listener is in the handoff window, no step of another client
\* frees its source or releases the fallback record of the source
C31_SourceKeptDuringHandoff ==
    [][\A l \in Listeners :
          InHandoff(l)
          => LET m == lis[l].shared_data IN
             /\ src'[m].inTree
             /\ src'[m].fallback = src[m].fallback
      ]_vars

\* the last listener of a stopped source is in the handoff window and the
\* fallback record is still there
C31_Witness ==
    \E l \in Listeners :
        /\ InHandoff(l)
        /\ src[lis[l].shared_data].listeners = 0
        /\ TERMINATING \in src[lis[l].shared_data].flags
        /\ src[lis[l].shared_data].fallback # NoMount

\* the sources that have listener l in their listener set
MemberOf(l) == {m \in Mounts : src[m].inTree /\ l \in src[m].clients}

\* C32: a listener is never in the listener sets of two sources; a listener
\* that runs one of the listener routines is in the set of the source it
\* points to (the fallback target or its own source again), and a listener in
\* the handoff window still has its source: it is attached, on its way or
\* released, never lost
C32_HandoffOutcomes ==
    \A l \in Listeners :
        /\ Cardinality(MemberOf(l)) <= 1
        /\ lis[l].ops \in {"client", "wait", "pause"}
           => MemberOf(l) = {lis[l].shared_data}
        /\ lis[l].ops = "moving"
           => /\ MemberOf(l) = {}
              /\ lis[l].shared_data \in Mounts
              /\ src[lis[l].shared_data].inTree
        /\ lis[l].ops \in {"none", "gone"} => MemberOf(l) = {}

\* the listener of a source in a round of LISTENERS_SYNC has moved: it is in
\* the listener set of the source named by the fallback record
C32_Witness ==
    \E l \in Listeners, m \in Mounts :
        /\ src[m].inTree
        /\ LISTENERS_SYNC \in src[m].flags
        /\ src[m].fallback \in Mounts
        /\ src[m].termination_count = 0
        /\ lis[l].shared_data = src[m].fallback
        /\ MemberOf(l) = {src[m].fallback}
        /\ ~lis[l].error

\* source client b runs one of the source routines (the HTTP response, the
\* read routine or the shutdown) on a source
Owns(b) ==
    IF bc[b].ops \in {"http", "read", "halt"} /\ bc[b].shared_data \in Mounts
    THEN {bc[b].shared_data} ELSE {}

\* C33: a source client that runs the source routines on a source is the
\* client of that source, so no two source clients own the same source
C33_OneBroadcasterPerSource ==
    \A b \in Broadcasters : \A m \in Owns(b) : src[m].inTree /\ src[m].client = b

\* a hijacker has taken over a running source: the source is its own and the
\* former source client has let go of it
C33_Witness ==
    \E b \in Broadcasters, o \in Broadcasters :
        /\ bc[b].hijacker /\ ~bc[o].hijacker
        /\ bc[o].uri = bc[b].uri
        /\ Owns(b) = {bc[b].uri}
        /\ src[bc[b].uri].client = b
        /\ bc[o].ops = "read" /\ Owns(o) = {}

\* the sources that were accepted by source_startup and whose source client
\* has not failed its response or been through source_client_shutdown
Accepted ==
    {m \in Mounts : /\ src[m].inTree
                    /\ src[m].client # NULL
                    /\ bc[src[m].client].ops \in {"http", "read", "halt"}
                    /\ bc[src[m].client].discon = "none"}

\* C34: global.sources is the number of accepted sources that have not gone
\* away, and it is never negative
C34_SourcesCountsAccepted ==
    /\ glob.sources >= 0
    /\ glob.sources = Cardinality(Accepted)

\* a source was accepted and runs: it is the one source counted
C34_Witness ==
    /\ glob.sources = 1
    /\ \E m \in Accepted : source_running(src[m]) /\ bc[src[m].client].ops = "read"

\* C35: the listener count of every source is the number of clients in its
\* listener set, and it is never negative
C35_ListenersIsSetSize ==
    \A m \in Mounts :
        src[m].inTree
        => /\ src[m].listeners = Cardinality(src[m].clients)
           /\ src[m].listeners >= 0

\* a slow listener was dropped from a running source: it was admitted and
\* detached, the set is empty and the count is 0
C35_Witness ==
    \E m \in Mounts, l \in Listeners :
        /\ src[m].inTree /\ source_running(src[m])
        /\ glob.slow[m] > 0
        /\ lis[l].ops = "gone"
        /\ src[m].clients = {} /\ src[m].listeners = 0

\* the listeners whose current refbuf is r
HeldBy(r) == {l \in Listeners : lis[l].refbuf = r}

\* the blocks of the sequence q before r
RECURSIVE Before(_, _)
Before(q, r) ==
    IF q = <<>> \/ Head(q) = r THEN <<>> ELSE <<Head(q)>> \o Before(Tail(q), r)

\* C36: in the trim of a call of source_read, a block that a listener holds
\* is unlinked only with queue_size above queue_size_limit when its turn
\* comes, so never when it lies in the newest queue_size_limit bytes; a block
\* unlinked with queue_size within the limit is held by no listener and lies
\* before min_queue_point; a held block that was unlinked is flagged, a block
\* left on the queue is not
C36_TrimOnlyBeyondLimit ==
    [][\A bs \in StreamData(buf) : Appended(1, bs) =>
         LET m == bc[1].shared_data
             a == AppendAll(src[m], buf, bs, FreeSlots(buf))
             q == ChainOf(a.b, a.s.stream_data)
             left == ChainOf(buf', src'[m].stream_data)
             burst == ChainOf(a.b, a.s.min_queue_point)
         IN  /\ \A r \in Range(q) \ Range(left) :
                  LET size == a.s.queue_size - SumLen(a.b, Before(q, r))
                      newest == SumLen(a.b, ChainOf(a.b, r))
                  IN  /\ HeldBy(r) # {}
                         => /\ size > a.s.queue_size_limit
                            /\ newest > a.s.queue_size_limit
                            /\ buf'[r].rel
                      /\ size <= a.s.queue_size_limit
                         => HeldBy(r) = {} /\ r \notin Range(burst)
             /\ \A r \in Range(left) : ~buf'[r].rel
      ]_vars

\* a trim has unlinked the unreferenced head of a queue within its limit
\* while the listener holds a block further on, which is not flagged
C36_Witness ==
    \E l \in Listeners :
        /\ src["a"].inTree /\ l \in src["a"].clients
        /\ src["a"].stream_data = 2
        /\ buf[1].count = 0
        /\ src["a"].queue_size < src["a"].queue_size_limit
        /\ lis[l].refbuf \in Range(ChainOf(buf, src["a"].stream_data))
        /\ ~buf[lis[l].refbuf].rel

\* the threads that hold the lock thread t is asking for, when it cannot
\* have it
BlockedBy(t) ==
    LET o == NextOp(t) IN
    CASE o.op = "lock" -> {u \in Threads : glob.mutex[o.m] = u}
      [] o.op = "rlock" -> {u \in Threads : glob.writer = u}
      [] o.op = "wlock" -> {u \in Threads : glob.writer = u} \cup glob.readers
      [] o.op = "prlock" -> {u \in Threads : glob.pool_writer = u}
      [] o.op = "pwlock" -> {u \in Threads : glob.pool_writer = u} \cup glob.pool_readers
      [] OTHER -> {}

\* every thread of D waits for a lock held by a thread of D, or by a thread
\* that has returned
Deadlocked(D) ==
    \A t \in D :
        \E u \in BlockedBy(t) : u \in D \/ glob.thr[u] = Idle

HandoffDone(m) ==
    /\ src[m].inTree
    /\ LISTENERS_SYNC \in src[m].flags
    /\ src[m].termination_count = 0

\* 1500 ms have gone by in a round that is not over
WatchdogFired(m) ==
    /\ src[m].inTree
    /\ LISTENERS_SYNC \in src[m].flags
    /\ src[m].termination_count # 0
    /\ src[m].client # NULL
    /\ bc[src[m].client].expired

TornDown(m) == ~src[m].inTree /\ \A b \in Broadcasters : bc[b].shared_data # m

RoundRead(m) ==
    /\ src[m].client # NULL
    /\ bc[src[m].client].ops = "read"
    /\ bc[src[m].client].shared_data = m
    /\ source_client_read(src[m].client, "idle", <<>>)

StageRank(f) ==
    CASE f = "http_source_listener" -> 0
      [] f = "http_source_intro" -> 1
      [] f = "http_source_introfile" -> 2
      [] f = "source_queue_advance" -> 3
      [] OTHER -> -1

\* the step puts the listener into the listener set of a source
FreshSetup(l) == \E m \in Mounts : l \in src'[m].clients /\ l \notin src[m].clients

\* the response headers of the listener are built and a part of them is
\* still to be written
HeadersPartlyWritten(l) ==
    /\ lis[l].ops = "client"
    /\ lis[l].shared_data \in Mounts
    /\ lis[l].check_buffer = "http_source_listener"
    /\ lis[l].respcode
    /\ lis[l].refbuf = PrivOf(l)
    /\ lis[l].pos < buf[PrivOf(l)].len

\* C39: the check_buffer stage of a listener never goes back, but for a fresh
\* source_setup_listener, and a call of check_buffer made while a part of
\* the response headers is still to be written does not go on to the queue
C39_StagesInOrder ==
    /\ [][\A l \in Listeners :
             (StageRank(lis[l].check_buffer) >= 0
                /\ StageRank(lis'[l].check_buffer) >= 0 /\ ~FreshSetup(l))
             => StageRank(lis'[l].check_buffer) >= StageRank(lis[l].check_buffer)
         ]_vars
    /\ [](\A l \in Listeners :
             HeadersPartlyWritten(l)
             => \A o \in check_buffer(src[lis[l].shared_data], lis[l], buf) :
                   /\ o.c.check_buffer \in {"http_source_listener", "http_source_intro"}
                   /\ o.c.check_buffer = "http_source_intro"
                      => o.c.pos = 0 /\ o.c.refbuf = NULL /\ o.ret > 0)

\* the headers are built and not written, the source runs and has data
C39_Witness ==
    \E l \in Listeners :
        /\ HeadersPartlyWritten(l)
        /\ source_running(src[lis[l].shared_data])
        /\ src[lis[l].shared_data].stream_data_tail # NULL

\* ------------------------------------------------------------ held listeners
\* the cancellation model with time going by: a listener that is held is
\* called again and again, and in the end more than 15 s after timer_start;
\* the listener is followed for MaxWrap passes below zero of termination_count
PauseNext ==
    \/ source_startup(1, "a", FALSE, "mp3", TRUE)
    \/ source_client_http_send(1, FALSE)
    \/ source_client_read(1, "idle", <<>>)
    \/ source_client_read(1, "fail", <<>>)
    \/ \E bs \in CancelData(buf) : source_client_read(1, "data", bs)
    \/ source_client_shutdown(1)
    \/ BroadcasterError(1)
    \/ TimerExpire(1)
    \/ PauseListeners("a")
    \/ source_add_listener(1, "a")
    \/ WithinWrap("a") /\ ListenerStep(1)
    \/ \E late \in BOOLEAN : wait_for_restart(1, late)
    \/ ListenerError(1)

SpecPause ==
    /\ LifeInit
    /\ [][PauseNext]_vars
    /\ WF_vars(wait_for_restart(1, TRUE))

\* the conditions on the source that end a stay in wait_for_restart
RestartOver(s) ==
    \/ source_running(s)
    \/ PAUSE_LISTENERS \notin s.flags
    \/ s.flags \cap {TERMINATING, LISTENERS_SYNC} # {}

\* C40: a held listener does not stay held for ever; a call of
\* wait_for_restart hands it back to the send routine when the source runs,
\* is not pausing its listeners, terminates or is in sync, and after more than
\* 15 s with connection.error set; the call that follows drops a listener
\* with connection.error
C40_PauseEnds ==
    /\ \A l \in Listeners : (lis[l].ops = "pause") ~> (lis[l].ops # "pause")
    /\ [][\A l \in Listeners, late \in BOOLEAN :
             wait_for_restart(l, late)
             => /\ RestartOver(src[lis[l].shared_data]) => lis'[l].ops = "client"
                /\ late => lis'[l].error /\ lis'[l].ops = "client"
                /\ lis'[l].ops = "pause" => ~late /\ ~lis[l].error
         ]_vars
    /\ [][\A l \in Listeners :
             (lis[l].error /\ (SendListener(l) \/ ListenerSyncBegin(l)))
             => lis'[l].ops = "gone"
         ]_vars

\* held for more than 15 s: the listener is back in the send routine with
\* connection.error set
C40_Witness ==
    \E l \in Listeners :
        /\ lis[l].ops = "client"
        /\ lis[l].error
        /\ lis[l].shared_data \in Mounts
        /\ PAUSE_LISTENERS \in src[lis[l].shared_data].flags

====
